---- MODULE Spec2Model ----
(***************************************************************************)
(* Vulkan resource lifecycle of the Cardboard Unity plugin:                *)
(*   - the swapchain interception hooks and the VulkanRenderer ("Frame     *)
(*     Target Manager") of vulkan_renderer.cc,                             *)
(*   - the VulkanWidgetsRenderer ("Widget Overlay Renderer") of            *)
(*     vulkan_widgets_renderer.cc.                                         *)
(* The Vulkan driver is modelled as an allocator of fresh handles that     *)
(* remembers which handles are live and what each one was created from.    *)
(* Every handler of the program is one operator on a record of the whole   *)
(* program state; an action applies the operator and installs the result.  *)
(***************************************************************************)
EXTENDS Integers, Sequences, FiniteSets, TLC

VARIABLES
  \* process-wide state of vulkan_renderer.cc
  cached_swapchain, image_index,
  \* the host's swapchain as the driver knows it (number of images)
  swapchain_size,
  \* VulkanRenderer
  vr_life, vulkan_interface_, logical_device_,
  current_rendering_width_, current_rendering_height_,
  swapchain_image_count_, frames_to_update_count_, render_pass_,
  swapchain_views_, frame_buffers_,
  \* VulkanWidgetsRenderer
  wr_life, widget_image_count_, descriptor_set_layout_, pipeline_layout_,
  graphics_pipeline_, vertex_buffers_, vertex_buffers_memory_,
  index_buffers_, index_buffers_memory_, descriptor_pool_, descriptor_sets_,
  image_views_, texture_sampler_, current_render_pass_,
  \* the driver: next fresh handle, live handles, what each handle is
  next_handle, live, objs,
  \* the driver calls made by the handler that ran last
  log,
  \* history of the frame target since the last dimension change
  since_change, requested, stable, pipeline_built_for,
  \* how far the run has gone: per-frame calls made, and calls that failed
  \* (driver calls, LoadVulkan)
  calls, failures,
  \* the resolver the host handed over and the two entry points resolved
  \* through it
  Orig_GetInstanceProcAddr, Orig_vkCreateSwapchainKHR,
  Orig_vkAcquireNextImageKHR,
  \* whether LoadVulkan found the driver's entry points; the index count of
  \* the shared index buffer
  vulkan_loaded, indices_count_,
  \* the render passes open on the host's current command buffer
  open_passes,
  \* what the host saw of the intercepted call or resolution it made last
  host,
  \* where the host is in its frame, and how often each swapchain image was
  \* presented at another size than the requested one since the last
  \* dimension change
  frame_phase, stale_count,
  \* what the driver reports of the physical device: its memory types and
  \* the memory type bits of the requirements of a resource created on it
  physical_device,
  \* the RenderTexture structures of the host
  render_textures

vars == <<cached_swapchain, image_index, swapchain_size,
          vr_life, vulkan_interface_, logical_device_,
          current_rendering_width_, current_rendering_height_,
          swapchain_image_count_, frames_to_update_count_, render_pass_,
          swapchain_views_, frame_buffers_,
          wr_life, widget_image_count_, descriptor_set_layout_,
          pipeline_layout_, graphics_pipeline_, vertex_buffers_,
          vertex_buffers_memory_, index_buffers_, index_buffers_memory_,
          descriptor_pool_, descriptor_sets_, image_views_, texture_sampler_,
          current_render_pass_, next_handle, live, objs, log,
          since_change, requested, stable, pipeline_built_for,
          calls, failures,
          Orig_GetInstanceProcAddr, Orig_vkCreateSwapchainKHR,
          Orig_vkAcquireNextImageKHR, vulkan_loaded, indices_count_,
          open_passes, host, frame_phase, stale_count,
          physical_device, render_textures>>

(***************************************************************************)
(* Bounds of the exploration.                                              *)
(***************************************************************************)
MaxImages == 3        \* images of the host's swapchain: 1..MaxImages
MaxDim == 1           \* viewport dimensions: 0..MaxDim, target: 1..MaxDim+1
MaxFrames == 3        \* pre-processing calls of one run
MaxRenders == 2       \* RenderWidgets calls of one run
MaxFailures == 1      \* failing driver calls of one run
MaxWidgets == 2       \* widgets of one RenderWidgets call: 0..MaxWidgets
MaxRenderPass == 2    \* render pass handles the caller passes: 0..MaxRenderPass
MaxResolvers == 2     \* resolvers the host may hand over: 1..MaxResolvers
MaxInstances == 2     \* instances the host resolves names for: 1..MaxInstances
MaxSwapchains == 2    \* swapchains the host creates in one run
MaxPresents == 5      \* frames of one run without driver failures
MaxOverlays == 1      \* frames of one run with the widget overlay
MaxCoord == 2         \* widget rectangles: x, y in 0..MaxCoord, sides 1..MaxCoord
MaxTextures == 2      \* RenderTexture structures of the host: 1..MaxTextures
MaxMemoryTypes == 2   \* memory types of the physical device: 0..MaxMemoryTypes

VK_NULL_HANDLE == 0

\* A value a handle-typed field may hold when nothing ever assigned it: the
\* null handle, or a non-null value the driver never returned.
WildHandle == 0 - 1
IndeterminateHandle == {VK_NULL_HANDLE, WildHandle}
\* A value a uint32_t field may hold when nothing ever assigned it.
IndeterminateCount == 0 .. (MaxImages + 1)

\* The state of the program as one record.
St ==
  [cached_swapchain |-> cached_swapchain, image_index |-> image_index,
   swapchain_size |-> swapchain_size,
   vr_life |-> vr_life, vulkan_interface_ |-> vulkan_interface_,
   logical_device_ |-> logical_device_,
   current_rendering_width_ |-> current_rendering_width_,
   current_rendering_height_ |-> current_rendering_height_,
   swapchain_image_count_ |-> swapchain_image_count_,
   frames_to_update_count_ |-> frames_to_update_count_,
   render_pass_ |-> render_pass_,
   swapchain_views_ |-> swapchain_views_, frame_buffers_ |-> frame_buffers_,
   wr_life |-> wr_life, widget_image_count_ |-> widget_image_count_,
   descriptor_set_layout_ |-> descriptor_set_layout_,
   pipeline_layout_ |-> pipeline_layout_,
   graphics_pipeline_ |-> graphics_pipeline_,
   vertex_buffers_ |-> vertex_buffers_,
   vertex_buffers_memory_ |-> vertex_buffers_memory_,
   index_buffers_ |-> index_buffers_,
   index_buffers_memory_ |-> index_buffers_memory_,
   descriptor_pool_ |-> descriptor_pool_,
   descriptor_sets_ |-> descriptor_sets_, image_views_ |-> image_views_,
   texture_sampler_ |-> texture_sampler_,
   current_render_pass_ |-> current_render_pass_,
   next_handle |-> next_handle, live |-> live, objs |-> objs, log |-> log,
   since_change |-> since_change, requested |-> requested,
   stable |-> stable, pipeline_built_for |-> pipeline_built_for,
   calls |-> calls, failures |-> failures,
   Orig_GetInstanceProcAddr |-> Orig_GetInstanceProcAddr,
   Orig_vkCreateSwapchainKHR |-> Orig_vkCreateSwapchainKHR,
   Orig_vkAcquireNextImageKHR |-> Orig_vkAcquireNextImageKHR,
   vulkan_loaded |-> vulkan_loaded,
   indices_count_ |-> indices_count_,
   open_passes |-> open_passes,
   host |-> host,
   frame_phase |-> frame_phase,
   stale_count |-> stale_count,
   physical_device |-> physical_device,
   render_textures |-> render_textures]

Install(r) ==
  /\ cached_swapchain' = r.cached_swapchain
  /\ image_index' = r.image_index
  /\ swapchain_size' = r.swapchain_size
  /\ vr_life' = r.vr_life
  /\ vulkan_interface_' = r.vulkan_interface_
  /\ logical_device_' = r.logical_device_
  /\ current_rendering_width_' = r.current_rendering_width_
  /\ current_rendering_height_' = r.current_rendering_height_
  /\ swapchain_image_count_' = r.swapchain_image_count_
  /\ frames_to_update_count_' = r.frames_to_update_count_
  /\ render_pass_' = r.render_pass_
  /\ swapchain_views_' = r.swapchain_views_
  /\ frame_buffers_' = r.frame_buffers_
  /\ wr_life' = r.wr_life
  /\ widget_image_count_' = r.widget_image_count_
  /\ descriptor_set_layout_' = r.descriptor_set_layout_
  /\ pipeline_layout_' = r.pipeline_layout_
  /\ graphics_pipeline_' = r.graphics_pipeline_
  /\ vertex_buffers_' = r.vertex_buffers_
  /\ vertex_buffers_memory_' = r.vertex_buffers_memory_
  /\ index_buffers_' = r.index_buffers_
  /\ index_buffers_memory_' = r.index_buffers_memory_
  /\ descriptor_pool_' = r.descriptor_pool_
  /\ descriptor_sets_' = r.descriptor_sets_
  /\ image_views_' = r.image_views_
  /\ texture_sampler_' = r.texture_sampler_
  /\ current_render_pass_' = r.current_render_pass_
  /\ next_handle' = r.next_handle
  /\ live' = r.live
  /\ objs' = r.objs
  /\ log' = r.log
  /\ since_change' = r.since_change
  /\ requested' = r.requested
  /\ stable' = r.stable
  /\ pipeline_built_for' = r.pipeline_built_for
  /\ calls' = r.calls
  /\ failures' = r.failures
  /\ Orig_GetInstanceProcAddr' = r.Orig_GetInstanceProcAddr
  /\ Orig_vkCreateSwapchainKHR' = r.Orig_vkCreateSwapchainKHR
  /\ Orig_vkAcquireNextImageKHR' = r.Orig_vkAcquireNextImageKHR
  /\ vulkan_loaded' = r.vulkan_loaded
  /\ indices_count_' = r.indices_count_
  /\ open_passes' = r.open_passes
  /\ host' = r.host
  /\ frame_phase' = r.frame_phase
  /\ stale_count' = r.stale_count
  /\ physical_device' = r.physical_device
  /\ render_textures' = r.render_textures

(***************************************************************************)
(* The driver.                                                             *)
(***************************************************************************)
\* One entry of the call log.
Entry(r, op, kind, h, arg) ==
  [op |-> op, kind |-> kind, h |-> h,
   was_live |-> h \in r.live,
   known |-> h \in DOMAIN r.objs,
   dependents |-> {d \in r.live : r.objs[d].dep = h},
   arg |-> arg]

\* The handler starts with an empty call log.
Begin(r) == [r EXCEPT !.log = <<>>]

\* A call that only records itself (vkCmd*, vkUpdateDescriptorSets, an
\* out-of-bounds access).
Record(r, op, kind, h, arg) ==
  [r EXCEPT !.log = Append(@, Entry(r, op, kind, h, arg))]

\* vkCreate* / vkAllocate*: on success the driver returns the fresh handle
\* r.next_handle; on failure it creates nothing.
vkCreate(r, kind, dep, arg, ok) ==
  IF ok
  THEN [r EXCEPT !.next_handle = @ + 1,
                 !.live = @ \cup {r.next_handle},
                 !.objs = @ @@ (r.next_handle :>
                                  [kind |-> kind, dep |-> dep, arg |-> arg]),
                 !.log = Append(@, Entry(r, "create", kind, r.next_handle, arg))]
  ELSE Record(r, "create_failed", kind, VK_NULL_HANDLE, arg)

\* What the output parameter of a create call holds afterwards: the fresh
\* handle, or on failure either its old contents or the null handle (the
\* contents of an output parameter of a failed call are undefined).
Out(r, old, ok, leave) ==
  IF ok THEN r.next_handle ELSE IF leave THEN old ELSE VK_NULL_HANDLE

\* vkDestroy* / vkFree*: the handle stops being live; a descriptor pool takes
\* its descriptor sets with it.  Destroying the null handle does nothing.
vkDestroy(r, kind, h) ==
  LET gone == {h} \cup {d \in r.live : r.objs[d].kind = "DescriptorSet"
                                       /\ r.objs[d].dep = h}
  IN [r EXCEPT !.live = @ \ gone,
               !.log = Append(@, Entry(r, "destroy", kind, h, <<>>))]

\* v[i] of a std::vector, indices from 0.  An index past the end reads
\* whatever lies there.
InRange(v, i) == i >= 0 /\ i < Len(v)
At(v, i, wild) == IF InRange(v, i) THEN v[i + 1] ELSE wild
ReadAt(r, name, v, i) ==
  IF InRange(v, i) THEN r ELSE Record(r, "out_of_bounds", name, VK_NULL_HANDLE, <<i>>)

\* std::vector::resize on a vector of handles: new elements are null,
\* elements past the new size are dropped.
Resize(v, n) == [i \in 1..n |-> IF i <= Len(v) THEN v[i] ELSE VK_NULL_HANDLE]

(***************************************************************************)
(* Inputs of the handlers.                                                 *)
(***************************************************************************)
\* Which driver call of a handler fails, if any: a call site is the kind of
\* object it creates and the slot it creates it for.  leave says what the
\* failed call leaves in its output parameter (TRUE: the old contents).
\* writable says what the pointer that a failed vkMapMemory never set points
\* to (TRUE: memory the process may write).
NoFail == [site |-> <<"none", 0>>, leave |-> FALSE, writable |-> FALSE]
FailChoices(sites) ==
  {NoFail} \cup
  IF failures < MaxFailures
  THEN {c \in [site : sites, leave : BOOLEAN, writable : BOOLEAN] :
          c.writable => c.site[1] \in {"Memory", "MapMemory"}}
  ELSE {}
Failed(f) == IF f = NoFail THEN 0 ELSE 1
Ok(f, kind, idx) == f.site # <<kind, idx>>

\* Renderer::ScreenParams as far as the two files read it.
\* The viewports are 0x0, w x 0 and w x h with h <= w; the target differs from
\* 1x1 only under the largest viewport.
ScreenParamsSet ==
  {sp \in [viewport_width : 0..MaxDim, viewport_height : 0..MaxDim,
           width : 1..(MaxDim + 1), height : {1}] :
     /\ sp.viewport_height <= sp.viewport_width
     /\ sp.width > 1 => sp.viewport_width = MaxDim /\ sp.viewport_height = MaxDim}

\* Renderer::WidgetParams: the texture is a handle of the host; x, y, width
\* and height are the widget's rectangle in the host's pixels.
WidgetParamsSet == [texture : {1}, x : {0}, y : {0}, width : {100}, height : {50}]
\* The screen parameters a RenderWidgets call gets.
WidgetScreenParams ==
  {[viewport_width |-> 1280, viewport_height |-> 720, width |-> 1280,
    height |-> 720]}
WidgetLists == UNION {[1..n -> WidgetParamsSet] : n \in 0..MaxWidgets}

(***************************************************************************)
(* The physical device and its memory types.                               *)
(***************************************************************************)
\* VkMemoryPropertyFlagBits as far as the two files name them.
VK_MEMORY_PROPERTY_DEVICE_LOCAL_BIT == 1
VK_MEMORY_PROPERTY_HOST_VISIBLE_BIT == 2
VK_MEMORY_PROPERTY_HOST_COHERENT_BIT == 4

\* a & b, a | b and 1 << i on unsigned integers.
RECURSIVE BitAnd(_, _)
BitAnd(a, b) ==
  IF a = 0 \/ b = 0 THEN 0
  ELSE (a % 2) * (b % 2) + 2 * BitAnd(a \div 2, b \div 2)
BitOr(a, b) == a + b - BitAnd(a, b)
Shl(i) == 2 ^ i

\* The property flags a memory type of a device may have: device local,
\* host visible only, host visible and coherent.
MemoryTypeFlags ==
  {VK_MEMORY_PROPERTY_DEVICE_LOCAL_BIT, VK_MEMORY_PROPERTY_HOST_VISIBLE_BIT,
   BitOr(VK_MEMORY_PROPERTY_HOST_VISIBLE_BIT,
         VK_MEMORY_PROPERTY_HOST_COHERENT_BIT)}

\* The physical devices: memoryTypes[i + 1] holds the propertyFlags of memory
\* type i, Len(memoryTypes) is memoryTypeCount, and memoryTypeBits is what
\* vkGet*MemoryRequirements reports for a resource created on the device.
Devices ==
  [memoryTypes : UNION {[1..n -> MemoryTypeFlags] : n \in 0..MaxMemoryTypes},
   memoryTypeBits : 0..(Shl(MaxMemoryTypes + 1) - 1)]

\* A device with a device-local type 0 and a host-visible, coherent type 1,
\* both acceptable for every resource.
DefaultDevice ==
  [memoryTypes |-> <<VK_MEMORY_PROPERTY_DEVICE_LOCAL_BIT,
                     BitOr(VK_MEMORY_PROPERTY_HOST_VISIBLE_BIT,
                           VK_MEMORY_PROPERTY_HOST_COHERENT_BIT)>>,
   memoryTypeBits |-> 3]

\* memoryTypeBits of the requirements of a resource: the device's answer for
\* a resource that exists; for a handle that no successful create call wrote
\* the requirements are indeterminate, here the device's answer or no bit.
MemoryTypeBits(r, f, created) ==
  IF created \/ f.leave THEN r.physical_device.memoryTypeBits ELSE 0

\* The value the loop of FindMemoryType ends with when no type matches.
NotFound == 0 - 1

(***************************************************************************)
(* VulkanWidgetsRenderer (vulkan_widgets_renderer.cc).                     *)
(***************************************************************************)
\* CALL_VK: a result other than VK_SUCCESS is written to the error log with
\* the call site; execution goes on.
CALL_VK(r, ok) ==
  IF ok THEN r ELSE Record(r, "LOGE", "CALL_VK", VK_NULL_HANDLE, <<>>)

RECURSIVE FindMemoryTypeFrom_AnyProperty(_, _, _, _)
RECURSIVE FindMemoryTypeFrom(_, _, _, _)

\* The loop of FindMemoryType accepting a type that has any one of the
\* requested properties.
FindMemoryTypeFrom_AnyProperty(memoryTypes, type_filter, properties, i) ==
  IF i >= Len(memoryTypes) THEN NotFound
  ELSE IF /\ BitAnd(type_filter, Shl(i)) # 0
          /\ BitAnd(memoryTypes[i + 1], properties) # 0
       THEN i
       ELSE FindMemoryTypeFrom_AnyProperty(memoryTypes, type_filter, properties, i + 1)

\* The loop of FindMemoryType from index i on.
FindMemoryTypeFrom(memoryTypes, type_filter, properties, i) ==
  IF i >= Len(memoryTypes) THEN NotFound
  ELSE IF /\ BitAnd(type_filter, Shl(i)) # 0
          /\ BitAnd(memoryTypes[i + 1], properties) = properties
       THEN i
       ELSE FindMemoryTypeFrom(memoryTypes, type_filter, properties, i + 1)

\* FindMemoryType: the result is the state and the index returned.  The call
\* is recorded with its arguments and the index it returns; without a match
\* it writes to the error log and returns 0.
FindMemoryType(r, type_filter, properties) ==
  LET i == FindMemoryTypeFrom(r.physical_device.memoryTypes, type_filter,
                              properties, 0)
      index == IF i = NotFound THEN 0 ELSE i
      r1 == Record(r, "FindMemoryType", "MemoryType", VK_NULL_HANDLE,
                   <<type_filter, properties, index>>)
  IN [r |-> IF i = NotFound
            THEN Record(r1, "LOGE", "FindMemoryType", VK_NULL_HANDLE, <<>>)
            ELSE r1,
      index |-> index]

\* CreateBuffer: buffer and memory are the references the caller passes;
\* both callers ask for host-visible, host-coherent memory.
\* The result is the state and the two references' contents.
CreateBuffer(r, f, idx, buffer, buffer_memory) ==
  LET okb == Ok(f, "Buffer", idx)
      b == Out(r, buffer, okb, f.leave)
      r1 == CALL_VK(vkCreate(r, "Buffer", VK_NULL_HANDLE, <<idx>>, okb), okb)
      okm == Ok(f, "Memory", idx)
      \* the allocation, for what FindMemoryType returned
      Allocate(found) ==
        LET m == Out(found.r, buffer_memory, okm, f.leave)
            r2 == CALL_VK(vkCreate(found.r, "Memory", VK_NULL_HANDLE, <<idx>>, okm), okm)
            \* vkBindBufferMemory
            r3 == IF b \in r2.live /\ m \in r2.live
                  THEN [r2 EXCEPT !.objs[b].dep = m]
                  ELSE r2
        IN [r |-> Record(r3, "BindBufferMemory", "Buffer", b, <<m>>),
            buffer |-> b, buffer_memory |-> m]
  IN CHOOSE result \in
       {Allocate(found) :
          found \in {FindMemoryType(
                       r1, MemoryTypeBits(r1, f, okb),
                       BitOr(VK_MEMORY_PROPERTY_HOST_VISIBLE_BIT,
                             VK_MEMORY_PROPERTY_HOST_COHERENT_BIT))}} : TRUE

\* A write through a pointer to memory the process may not write ends the
\* process: nothing of it runs afterwards.
Crashed(r) == r.wr_life = "crashed"

\* vkMapMemory into the local pointer data, then memcpy(data, contents).  The
\* map fails for memory that was never allocated; checked says whether the
\* call is wrapped in CALL_VK.  After a failed map data was never set: the
\* copy goes wherever data points.
MapAndCopy(r, f, idx, memory, kind, contents, checked) ==
  LET ok == Ok(f, "MapMemory", idx) /\ memory \in r.live
      r1 == Record(r, "MapMemory", "Memory", memory, <<idx>>)
      r2 == IF checked THEN CALL_VK(r1, ok) ELSE r1
  IN IF ok THEN Record(r2, "memcpy", kind, memory, contents)
     ELSE IF f.writable THEN Record(r2, "memcpy", kind, WildHandle, contents)
     ELSE [Record(r2, "SIGSEGV", kind, VK_NULL_HANDLE, <<>>)
             EXCEPT !.wr_life = "crashed"]

\* The indices of a quad, shared by all widgets.
QuadIndices == <<0, 1, 2, 2, 3, 0>>

\* CreateIndexBuffer keeping the size of the buffer in bytes as the count.
CreateIndexBuffer_ByteCount(r, f, indices) ==
  LET c == CreateBuffer(r, f, 0 - 1, r.index_buffers_, r.index_buffers_memory_)
      r1 == [c.r EXCEPT !.index_buffers_ = c.buffer,
                        !.index_buffers_memory_ = c.buffer_memory]
      r2 == MapAndCopy(r1, f, 0 - 1, c.buffer_memory, "Indices", indices, FALSE)
  IN IF Crashed(r2) THEN r2
     ELSE [r2 EXCEPT !.indices_count_ = 2 * Len(indices)]

CreateIndexBuffer(r, f, indices) ==
  LET c == CreateBuffer(r, f, 0 - 1, r.index_buffers_, r.index_buffers_memory_)
      r1 == [c.r EXCEPT !.index_buffers_ = c.buffer,
                        !.index_buffers_memory_ = c.buffer_memory]
      r2 == MapAndCopy(r1, f, 0 - 1, c.buffer_memory, "Indices", indices, FALSE)
  IN IF Crashed(r2) THEN r2
     ELSE [r2 EXCEPT !.indices_count_ = Len(indices)]

CreateSharedVulkanObjects(r, f) ==
  LET ok1 == Ok(f, "DescriptorSetLayout", 0)
      dsl == Out(r, r.descriptor_set_layout_, ok1, f.leave)
      r1 == [CALL_VK(vkCreate(r, "DescriptorSetLayout", VK_NULL_HANDLE,
                                   <<>>, ok1), ok1)
               EXCEPT !.descriptor_set_layout_ = dsl]
      ok2 == Ok(f, "PipelineLayout", 0)
      pl == Out(r1, r1.pipeline_layout_, ok2, f.leave)
      r2 == [CALL_VK(vkCreate(r1, "PipelineLayout", dsl, <<>>, ok2), ok2)
               EXCEPT !.pipeline_layout_ = pl]
      ok3 == Ok(f, "Sampler", 0)
      sm == Out(r2, r2.texture_sampler_, ok3, f.leave)
      r3 == [CALL_VK(vkCreate(r2, "Sampler", VK_NULL_HANDLE, <<>>, ok3), ok3)
               EXCEPT !.texture_sampler_ = sm]
  IN CreateIndexBuffer(r3, f, QuadIndices)

\* The constructor.  sampler, pass and count are the values the members that
\* the initializer list leaves out happen to hold: texture_sampler_,
\* current_render_pass_ and indices_count_.
VulkanWidgetsRenderer(r, loaded, sampler, pass, count, f) ==
  LET r0 == [Begin(r) EXCEPT
               !.wr_life = "alive",
               !.widget_image_count_ = 1,
               !.descriptor_set_layout_ = VK_NULL_HANDLE,
               !.pipeline_layout_ = VK_NULL_HANDLE,
               !.graphics_pipeline_ = VK_NULL_HANDLE,
               !.vertex_buffers_ = <<>>,
               !.vertex_buffers_memory_ = <<>>,
               !.index_buffers_ = VK_NULL_HANDLE,
               !.index_buffers_memory_ = VK_NULL_HANDLE,
               !.descriptor_pool_ = VK_NULL_HANDLE,
               !.descriptor_sets_ = <<>>,
               !.image_views_ = <<>>,
               !.texture_sampler_ = sampler,
               !.current_render_pass_ = pass,
               !.indices_count_ = count,
               !.vulkan_loaded = loaded]
  IN IF ~loaded THEN r0 ELSE CreateSharedVulkanObjects(r0, f)

CleanPipeline(r) ==
  IF r.graphics_pipeline_ # VK_NULL_HANDLE
  THEN [vkDestroy(r, "Pipeline", r.graphics_pipeline_)
          EXCEPT !.graphics_pipeline_ = VK_NULL_HANDLE]
  ELSE r

\* wild is what an element past the end of image_views_ reads as.
CleanTextureImageView(r, index, wild) ==
  LET v == At(r.image_views_, index, wild)
      r1 == ReadAt(r, "image_views_", r.image_views_, index)
  IN IF v # VK_NULL_HANDLE
     THEN [vkDestroy(r1, "ImageView", v) EXCEPT
             !.image_views_ = IF InRange(@, index)
                              THEN [@ EXCEPT ![index + 1] = VK_NULL_HANDLE]
                              ELSE @]
     ELSE r1

\* vkAllocateDescriptorSets for n sets out of pool: the fresh handles are
\* r.next_handle, r.next_handle + 1, ...
RECURSIVE AllocateSets(_, _, _)
AllocateSets(r, n, pool) ==
  IF n = 0 THEN r
  ELSE AllocateSets(vkCreate(r, "DescriptorSet", pool, <<>>, TRUE), n - 1, pool)

CreatePerWidgetVulkanObjects(r, f) ==
  LET n == r.widget_image_count_
      okp == Ok(f, "DescriptorPool", 0)
      pool == Out(r, r.descriptor_pool_, okp, f.leave)
      r1 == [CALL_VK(vkCreate(r, "DescriptorPool", VK_NULL_HANDLE, <<n>>, okp),
                     okp)
               EXCEPT !.descriptor_pool_ = pool]
      resized == Resize(r1.descriptor_sets_, n)
      \* sets come out of a live pool only
      oks == Ok(f, "DescriptorSet", 0) /\ pool \in r1.live
      sets == IF oks THEN [i \in 1..n |-> r1.next_handle + i - 1]
              ELSE IF f.leave THEN resized
              ELSE [i \in 1..n |-> VK_NULL_HANDLE]
      r2 == IF oks THEN AllocateSets(r1, n, pool)
            ELSE CALL_VK(Record(r1, "create_failed", "DescriptorSet",
                                VK_NULL_HANDLE, <<n>>), FALSE)
  IN [r2 EXCEPT !.descriptor_sets_ = sets,
                !.image_views_ = Resize(@, n),
                !.vertex_buffers_ = Resize(@, n),
                !.vertex_buffers_memory_ = Resize(@, n)]

\* vertices is what memcpy writes into the mapped memory.
CreateVertexBuffer(r, f, vertices, index) ==
  IF index >= Len(r.vertex_buffers_) THEN r
  ELSE LET c == CreateBuffer(r, f, index, r.vertex_buffers_[index + 1],
                             r.vertex_buffers_memory_[index + 1])
           r1 == [c.r EXCEPT !.vertex_buffers_[index + 1] = c.buffer,
                             !.vertex_buffers_memory_[index + 1] = c.buffer_memory]
       IN MapAndCopy(r1, f, index, c.buffer_memory, "Vertices", vertices, TRUE)

\* The float values of the geometry, kept exact: a number is <<n, d>> for
\* n/d in lowest terms with d > 0; d = 0 marks what a division by zero gives
\* (<<1, 0>> and <<-1, 0>> the infinities, <<0, 0>> not a number).
Abs(n) == IF n < 0 THEN 0 - n ELSE n
Sign(n) == IF n < 0 THEN 0 - 1 ELSE IF n > 0 THEN 1 ELSE 0
RECURSIVE GCD(_, _)
GCD(a, b) == IF b = 0 THEN a ELSE GCD(b, a % b)
Float(n, d) ==
  IF d = 0 THEN <<Sign(n), 0>>
  ELSE LET g == GCD(Abs(n), Abs(d))
       IN <<Sign(d) * (n \div g), Abs(d) \div g>>
Finite(a) == a[2] # 0
\* static_cast<float> of an int
ToFloat(n) == <<n, 1>>
FAdd(a, b) ==
  IF Finite(a) /\ Finite(b) THEN Float(a[1] * b[2] + b[1] * a[2], a[2] * b[2])
  ELSE IF Finite(a) THEN b
  ELSE IF Finite(b) \/ a = b THEN a
  ELSE <<0, 0>>
FSub(a, b) == FAdd(a, <<0 - b[1], b[2]>>)
FMul(a, b) ==
  IF Finite(a) /\ Finite(b) THEN Float(a[1] * b[1], a[2] * b[2])
  ELSE <<Sign(a[1]) * Sign(b[1]), 0>>
FDiv(a, b) ==
  IF Finite(a) /\ Finite(b) THEN Float(a[1] * b[2], a[2] * b[1])
  ELSE IF Finite(b) THEN (IF b[1] < 0 THEN <<0 - a[1], 0>> ELSE a)
  ELSE IF Finite(a) THEN <<0, 1>>
  ELSE <<0, 0>>

\* Linear interpolation from start to end.
Lerp(start, end, val) == FAdd(start, FMul(FSub(end, start), val))

\* The quad of a widget with its y taken as it comes, without the change
\* from the host's coordinate system to Vulkan's.
QuadVertices_NoMirror(widget_params, screen_params) ==
  LET x == Lerp(ToFloat(0 - 1), ToFloat(1),
                FDiv(ToFloat(widget_params.x),
                     ToFloat(screen_params.viewport_width)))
      y == Lerp(ToFloat(0 - 1), ToFloat(1),
                FDiv(ToFloat(widget_params.y),
                     ToFloat(screen_params.viewport_height)))
      width == FDiv(FMul(ToFloat(widget_params.width), ToFloat(2)),
                    ToFloat(screen_params.viewport_width))
      height == FDiv(FMul(ToFloat(widget_params.height), ToFloat(2)),
                     ToFloat(screen_params.viewport_height))
  IN << <<x, y, ToFloat(0), ToFloat(1)>>,
        <<x, FAdd(y, height), ToFloat(0), ToFloat(0)>>,
        <<FAdd(x, width), FAdd(y, height), ToFloat(1), ToFloat(0)>>,
        <<FAdd(x, width), y, ToFloat(1), ToFloat(1)>> >>

\* The four vertices {x, y, u, v} of a widget's quad in normalized device
\* coordinates.
QuadVertices(widget_params, screen_params) ==
  LET x == Lerp(ToFloat(0 - 1), ToFloat(1),
                FDiv(ToFloat(widget_params.x),
                     ToFloat(screen_params.viewport_width)))
      opengl_to_vulkan_y ==
        screen_params.viewport_height - widget_params.y - widget_params.height
      y == Lerp(ToFloat(0 - 1), ToFloat(1),
                FDiv(ToFloat(opengl_to_vulkan_y),
                     ToFloat(screen_params.viewport_height)))
      width == FDiv(FMul(ToFloat(widget_params.width), ToFloat(2)),
                    ToFloat(screen_params.viewport_width))
      height == FDiv(FMul(ToFloat(widget_params.height), ToFloat(2)),
                     ToFloat(screen_params.viewport_height))
  IN << <<x, y, ToFloat(0), ToFloat(1)>>,
        <<x, FAdd(y, height), ToFloat(0), ToFloat(0)>>,
        <<FAdd(x, width), FAdd(y, height), ToFloat(1), ToFloat(0)>>,
        <<FAdd(x, width), y, ToFloat(1), ToFloat(1)>> >>

UpdateVertexBuffer(r, f, widget_params, screen_params, index) ==
  LET r1 == IF r.vertex_buffers_[index + 1] # VK_NULL_HANDLE
            THEN vkDestroy(vkDestroy(r, "Buffer", r.vertex_buffers_[index + 1]),
                           "Memory", r.vertex_buffers_memory_[index + 1])
            ELSE r
  IN CreateVertexBuffer(r1, f, QuadVertices(widget_params, screen_params),
                        index)

RECURSIVE UpdateVertexBuffersFrom(_, _, _, _, _)
UpdateVertexBuffersFrom(r, f, widgets_params, screen_params, i) ==
  IF i >= r.widget_image_count_ \/ Crashed(r) THEN r
  ELSE UpdateVertexBuffersFrom(
         UpdateVertexBuffer(r, f, widgets_params[i + 1], screen_params, i),
         f, widgets_params, screen_params, i + 1)

UpdateVertexBuffers(r, f, widgets_params, screen_params) ==
  UpdateVertexBuffersFrom(r, f, widgets_params, screen_params, 0)

\* LoadShader returns a local VkShaderModule: after a failed create it holds
\* whatever the stack held.
CreateGraphicsPipeline(r, f) ==
  LET r0 == CleanPipeline(r)
      okv == Ok(f, "ShaderModule", 0)
      vertex_shader == IF okv THEN r0.next_handle ELSE WildHandle
      r1 == CALL_VK(vkCreate(r0, "ShaderModule", VK_NULL_HANDLE, <<0>>, okv), okv)
      okf == Ok(f, "ShaderModule", 1)
      fragment_shader == IF okf THEN r1.next_handle ELSE WildHandle
      r2 == CALL_VK(vkCreate(r1, "ShaderModule", VK_NULL_HANDLE, <<1>>, okf), okf)
      \* a pipeline needs both shader modules
      okp == Ok(f, "Pipeline", 0) /\ okv /\ okf
      p == Out(r2, r2.graphics_pipeline_, okp, f.leave)
      r3 == [CALL_VK(vkCreate(r2, "Pipeline", r2.pipeline_layout_,
                              <<r2.current_render_pass_>>, okp), okp)
               EXCEPT !.graphics_pipeline_ = p]
  IN vkDestroy(vkDestroy(r3, "ShaderModule", vertex_shader),
               "ShaderModule", fragment_shader)

RenderWidget(r, f, widget_params, image_index_) ==
  LET r1 == CleanTextureImageView(r, image_index_, VK_NULL_HANDLE)
      okv == Ok(f, "ImageView", image_index_)
      v == Out(r1, r1.image_views_[image_index_ + 1], okv, f.leave)
      r2 == [CALL_VK(vkCreate(r1, "ImageView", VK_NULL_HANDLE,
                              <<widget_params.texture>>, okv), okv)
               EXCEPT !.image_views_[image_index_ + 1] = v]
      r3 == Record(r2, "UpdateDescriptorSets", "DescriptorSet",
                   r2.descriptor_sets_[image_index_ + 1], <<v>>)
      r4 == Record(r3, "CmdBindPipeline", "Pipeline", r3.graphics_pipeline_, <<>>)
      r5 == Record(r4, "CmdBindVertexBuffers", "Buffer",
                   r4.vertex_buffers_[image_index_ + 1], <<>>)
      r6 == Record(r5, "CmdBindDescriptorSets", "DescriptorSet",
                   r5.descriptor_sets_[image_index_ + 1], <<>>)
  IN Record(r6, "CmdDrawIndexed", "Pipeline", r6.graphics_pipeline_,
            <<image_index_, r6.indices_count_>>)

RECURSIVE RenderWidgetFrom(_, _, _, _)
RenderWidgetFrom(r, f, widgets_params, i) ==
  IF i >= r.widget_image_count_ \/ Crashed(r) THEN r
  ELSE RenderWidgetFrom(RenderWidget(r, f, widgets_params[i + 1], i),
                        f, widgets_params, i + 1)

\* The rebuild of the pipeline when the render pass of the call is not the
\* cached one.
PipelineStale(render_pass, current) == render_pass # current

\* RenderWidgets drawing before it looks at the render pass.
RenderWidgets_DrawBeforeRebuild(r, f, screen_params, widgets_params, render_pass) ==
  LET r0 == Record(Begin(r), "call", "RenderWidgets", render_pass,
                   <<Len(widgets_params), widgets_params, screen_params>>)
      r1 == [r0 EXCEPT !.widget_image_count_ = Len(widgets_params)]
      r2 == CreatePerWidgetVulkanObjects(r1, f)
      r3 == UpdateVertexBuffers(r2, f, widgets_params, screen_params)
      r4 == RenderWidgetFrom(r3, f, widgets_params, 0)
  IN IF ~Crashed(r4) /\ PipelineStale(render_pass, r4.current_render_pass_)
     THEN CreateGraphicsPipeline(
            [r4 EXCEPT !.current_render_pass_ = render_pass], f)
     ELSE r4

RenderWidgets(r, f, screen_params, widgets_params, render_pass) ==
  LET r0 == Record(Begin(r), "call", "RenderWidgets", render_pass,
                   <<Len(widgets_params), widgets_params, screen_params>>)
      r1 == [r0 EXCEPT !.widget_image_count_ = Len(widgets_params)]
      r2 == CreatePerWidgetVulkanObjects(r1, f)
      r3 == UpdateVertexBuffers(r2, f, widgets_params, screen_params)
      r4 == IF ~Crashed(r3) /\ PipelineStale(render_pass, r3.current_render_pass_)
            THEN CreateGraphicsPipeline(
                   [r3 EXCEPT !.current_render_pass_ = render_pass], f)
            ELSE r3
  IN RenderWidgetFrom(r4, f, widgets_params, 0)

\* The loops of the destructor; wild is what an element past the end of a
\* vector reads as.
RECURSIVE CleanTextureImageViewsFrom(_, _, _)
CleanTextureImageViewsFrom(r, i, wild) ==
  IF i >= r.widget_image_count_ THEN r
  ELSE CleanTextureImageViewsFrom(CleanTextureImageView(r, i, wild), i + 1, wild)

RECURSIVE DestroyVertexBuffersFrom(_, _, _)
DestroyVertexBuffersFrom(r, i, wild) ==
  IF i >= r.widget_image_count_ THEN r
  ELSE LET b == At(r.vertex_buffers_, i, wild)
           m == At(r.vertex_buffers_memory_, i, wild)
           r1 == ReadAt(r, "vertex_buffers_", r.vertex_buffers_, i)
           r2 == IF b # VK_NULL_HANDLE
                 THEN vkDestroy(vkDestroy(r1, "Buffer", b), "Memory", m)
                 ELSE r1
       IN DestroyVertexBuffersFrom(r2, i + 1, wild)

\* The destructor destroying the pipeline before its layout.
WidgetsRendererTeardown_PipelineFirst(r, wild) ==
  LET r1 == CleanTextureImageViewsFrom(r, 0, wild)
      r2 == vkDestroy(r1, "Sampler", r1.texture_sampler_)
      r3 == CleanPipeline(r2)
      r4 == vkDestroy(r3, "PipelineLayout", r3.pipeline_layout_)
      r5 == vkDestroy(r4, "DescriptorSetLayout", r4.descriptor_set_layout_)
      r6 == vkDestroy(r5, "DescriptorPool", r5.descriptor_pool_)
      r7 == vkDestroy(r6, "Buffer", r6.index_buffers_)
      r8 == vkDestroy(r7, "Memory", r7.index_buffers_memory_)
      r9 == DestroyVertexBuffersFrom(r8, 0, wild)
  IN [r9 EXCEPT !.wr_life = "dead"]

WidgetsRendererTeardown(r, wild) ==
  LET r1 == CleanTextureImageViewsFrom(r, 0, wild)
      r2 == vkDestroy(r1, "Sampler", r1.texture_sampler_)
      r3 == vkDestroy(r2, "PipelineLayout", r2.pipeline_layout_)
      r4 == vkDestroy(r3, "DescriptorSetLayout", r3.descriptor_set_layout_)
      r5 == vkDestroy(r4, "DescriptorPool", r4.descriptor_pool_)
      r6 == CleanPipeline(r5)
      r7 == vkDestroy(r6, "Buffer", r6.index_buffers_)
      r8 == vkDestroy(r7, "Memory", r7.index_buffers_memory_)
      r9 == DestroyVertexBuffersFrom(r8, 0, wild)
  IN [r9 EXCEPT !.wr_life = "dead"]

WidgetsRendererDestructor(r, wild) ==
  WidgetsRendererTeardown(
    Record(Begin(r), "call", "~VulkanWidgetsRenderer", VK_NULL_HANDLE, <<>>),
    wild)

(***************************************************************************)
(* The interception hooks and VulkanRenderer (vulkan_renderer.cc).         *)
(***************************************************************************)
\* The device handle the host hands out (UnityVulkanInstance::device).
HostDevice == 1

\* Result codes of the driver.
VK_SUCCESS == 0
VK_ERROR_DEVICE_LOST == 0 - 4
ResultCodes == {VK_SUCCESS, VK_ERROR_DEVICE_LOST}

\* Function addresses: of the driver (as one of the host's resolvers returns
\* it for an instance and a name), of the plugin's hooks, or null.
NullAddress == [owner |-> "null", resolver |-> 0, instance |-> 0, name |-> ""]
HookAddress(name) ==
  [owner |-> "plugin", resolver |-> 0, instance |-> 0, name |-> name]

\* The names the host resolves.
Names == {"vkCreateSwapchainKHR", "vkAcquireNextImageKHR",
          "vkAcquireNextImage2KHR", "vkDestroySwapchainKHR"}

\* The host's resolvers: resolver 1 knows every name, the others lack the
\* swapchain extension.
Exports(g, name) == g = 1 \/ name \notin {"vkCreateSwapchainKHR",
                                          "vkDestroySwapchainKHR"}
\* (*Orig_GetInstanceProcAddr)(instance, pName)
ResolveOriginal(g, instance, name) ==
  IF Exports(g, name)
  THEN [owner |-> "driver", resolver |-> g, instance |-> instance, name |-> name]
  ELSE NullAddress

\* InterceptVulkanInitialization keeps the host's resolver; it returns
\* &MyGetInstanceProcAddr.
InterceptVulkanInitialization(r, GetInstanceProcAddr) ==
  [r EXCEPT !.Orig_GetInstanceProcAddr = GetInstanceProcAddr]

\* strcmp(a, b) == 0
SameName(a, b) == a = b

\* MyGetInstanceProcAddr with the second branch copied from the first and
\* its return left unedited.
MyGetInstanceProcAddr_CopiedReturn(r, instance, pName) ==
  LET orig == ResolveOriginal(r.Orig_GetInstanceProcAddr, instance, pName)
  IN IF SameName(pName, "vkCreateSwapchainKHR")
     THEN [r |-> [r EXCEPT !.Orig_vkCreateSwapchainKHR = orig],
           result |-> HookAddress("Hook_vkCreateSwapchainKHR")]
     ELSE IF SameName(pName, "vkAcquireNextImageKHR")
     THEN [r |-> [r EXCEPT !.Orig_vkAcquireNextImageKHR = orig],
           result |-> HookAddress("Hook_vkCreateSwapchainKHR")]
     ELSE [r |-> r, result |-> orig]

\* MyGetInstanceProcAddr: the state afterwards and the address returned.
MyGetInstanceProcAddr(r, instance, pName) ==
  LET orig == ResolveOriginal(r.Orig_GetInstanceProcAddr, instance, pName)
  IN IF SameName(pName, "vkCreateSwapchainKHR")
     THEN [r |-> [r EXCEPT !.Orig_vkCreateSwapchainKHR = orig],
           result |-> HookAddress("Hook_vkCreateSwapchainKHR")]
     ELSE IF SameName(pName, "vkAcquireNextImageKHR")
     THEN [r |-> [r EXCEPT !.Orig_vkAcquireNextImageKHR = orig],
           result |-> HookAddress("Hook_vkAcquireNextImageKHR")]
     ELSE [r |-> r, result |-> orig]

\* The host creates a swapchain of n images through the hook.  ok is whether
\* the driver call succeeds, pSwapchain what the host's output variable held
\* before the call: a failed call leaves it as it was.  The hook makes no
\* entry in the call log of the renderers.
Hook_vkCreateSwapchainKHR(r, n, ok, pSwapchain) ==
  LET r1 == vkCreate(r, "Swapchain", VK_NULL_HANDLE, <<n>>, ok)
      out == IF ok THEN r.next_handle ELSE pSwapchain
  IN [r1 EXCEPT !.cached_swapchain = out,
                !.swapchain_size = IF ok THEN n ELSE @,
                !.log = r.log]

\* Hook_vkAcquireNextImageKHR recording before it forwards.
Hook_vkAcquireNextImageKHR_RecordFirst(r, i, ok, pImageIndex) ==
  [r EXCEPT !.image_index = pImageIndex]

\* The host acquires image i of its swapchain through the hook; pImageIndex
\* is what the host's output variable held before the call.
Hook_vkAcquireNextImageKHR(r, i, ok, pImageIndex) ==
  LET out == IF ok THEN i ELSE pImageIndex
  IN [r EXCEPT !.image_index = out]

RECURSIVE CreateSwapchainViewsFrom(_, _, _)
CreateSwapchainViewsFrom(r, f, i) ==
  IF i >= Len(r.swapchain_views_) THEN r
  ELSE LET ok == Ok(f, "ImageView", i)
           v == Out(r, r.swapchain_views_[i + 1], ok, f.leave)
           r1 == [vkCreate(r, "ImageView", VK_NULL_HANDLE, <<i>>, ok)
                    EXCEPT !.swapchain_views_[i + 1] = v]
       IN CreateSwapchainViewsFrom(r1, f, i + 1)

\* The constructor.  device, count, pending and pass are the values the
\* members without an initializer happen to hold.
VulkanRenderer(r, available, device, count, pending, pass, f) ==
  LET r0 == [Record(Begin(r), "call", "VulkanRenderer", VK_NULL_HANDLE, <<>>)
               EXCEPT
               !.vr_life = "alive",
               !.current_rendering_width_ = 0,
               !.current_rendering_height_ = 0,
               !.vulkan_interface_ = available,
               !.logical_device_ = device,
               !.swapchain_image_count_ = count,
               !.frames_to_update_count_ = pending,
               !.render_pass_ = pass,
               !.swapchain_views_ = <<>>,
               !.frame_buffers_ = <<>>]
  IN IF ~available THEN r0
     ELSE LET n == r0.swapchain_size
              r1 == [r0 EXCEPT !.logical_device_ = HostDevice,
                               !.swapchain_image_count_ = n,
                               !.swapchain_views_ = Resize(@, n),
                               !.frame_buffers_ = Resize(@, n)]
              r2 == CreateSwapchainViewsFrom(r1, f, 0)
              okr == Ok(f, "RenderPass", 0)
              rp == Out(r2, r2.render_pass_, okr, f.leave)
          IN [vkCreate(r2, "RenderPass", VK_NULL_HANDLE, <<>>, okr)
                EXCEPT !.render_pass_ = rp]

\* SetupWidgets: make_unique<VulkanWidgetsRenderer>.
SetupWidgets(r, loaded, sampler, pass, count, f) ==
  VulkanWidgetsRenderer(r, loaded, sampler, pass, count, f)

\* VulkanRenderer::RenderWidgets hands its own render pass to the widgets
\* renderer.
VulkanRenderer_RenderWidgets(r, f, screen_params, widget_params) ==
  RenderWidgets(r, f, screen_params, widget_params, r.render_pass_)

\* TeardownWidgets running the teardown without looking at the pointer.
TeardownWidgets_NoNullCheck(r, wild) == WidgetsRendererTeardown(r, wild)

TeardownWidgets(r, wild) ==
  IF r.wr_life = "alive" THEN WidgetsRendererTeardown(r, wild) ELSE r

\* TeardownWidgets as the host calls it.
TeardownWidgetsCalled(r, wild) ==
  TeardownWidgets(
    Record(Begin(r), "call", "TeardownWidgets", VK_NULL_HANDLE, <<>>), wild)

\* RenderEyesToDisplay advancing the image index for the next frame.
RenderEyesToDisplay_AdvancesIndex(r) ==
  [Record(Begin(r), "call", "RenderEyesToDisplay", r.render_pass_,
          <<r.image_index>>)
     EXCEPT !.image_index = (@ + 1) % r.swapchain_image_count_]

\* RenderEyesToDisplay hands the render pass, the command buffer and the
\* process-wide image index to the distortion renderer.
RenderEyesToDisplay(r) ==
  Record(Begin(r), "call", "RenderEyesToDisplay", r.render_pass_,
         <<r.image_index>>)

RECURSIVE DestroyFrameTargetsFrom(_, _, _)
DestroyFrameTargetsFrom(r, i, wild) ==
  IF i >= r.swapchain_image_count_ THEN r
  ELSE LET r1 == ReadAt(r, "frame_buffers_", r.frame_buffers_, i)
           r2 == vkDestroy(r1, "Framebuffer", At(r.frame_buffers_, i, wild))
           r3 == vkDestroy(r2, "ImageView", At(r.swapchain_views_, i, wild))
       IN DestroyFrameTargetsFrom(r3, i + 1, wild)

\* The destructor destroying the render pass before the frame targets.
VulkanRendererDestructor_RenderPassFirst(r, wild) ==
  LET r0 == Record(Begin(r), "call", "~VulkanRenderer", VK_NULL_HANDLE, <<>>)
      r1 == TeardownWidgets(r0, wild)
      r2 == vkDestroy(r1, "RenderPass", r1.render_pass_)
      r3 == DestroyFrameTargetsFrom(r2, 0, wild)
  IN [r3 EXCEPT !.vr_life = "dead"]

VulkanRendererDestructor(r, wild) ==
  LET r0 == Record(Begin(r), "call", "~VulkanRenderer", VK_NULL_HANDLE, <<>>)
      r1 == TeardownWidgets(r0, wild)
      r2 == DestroyFrameTargetsFrom(r1, 0, wild)
      r3 == vkDestroy(r2, "RenderPass", r2.render_pass_)
  IN [r3 EXCEPT !.vr_life = "dead"]

\* The loop of VulkanRenderer's FindMemoryType from index i on.
RECURSIVE VulkanRenderer_FindMemoryTypeFrom(_, _, _, _)
VulkanRenderer_FindMemoryTypeFrom(memoryTypes, type_filter, properties, i) ==
  IF i >= Len(memoryTypes) THEN NotFound
  ELSE IF /\ BitAnd(type_filter, Shl(i)) # 0
          /\ BitAnd(memoryTypes[i + 1], properties) = properties
       THEN i
       ELSE VulkanRenderer_FindMemoryTypeFrom(memoryTypes, type_filter, properties, i + 1)

\* VulkanRenderer's FindMemoryType: as the one of the widgets renderer.
VulkanRenderer_FindMemoryType(r, type_filter, properties) ==
  LET i == VulkanRenderer_FindMemoryTypeFrom(r.physical_device.memoryTypes,
                                             type_filter, properties, 0)
      index == IF i = NotFound THEN 0 ELSE i
      r1 == Record(r, "FindMemoryType", "MemoryType", VK_NULL_HANDLE,
                   <<type_filter, properties, index>>)
  IN [r |-> IF i = NotFound
            THEN Record(r1, "LOGE", "FindMemoryType", VK_NULL_HANDLE, <<>>)
            ELSE r1,
      index |-> index]

\* The RenderTexture structures of the host before any call wrote them.
NoRenderTextures ==
  [t \in 1..MaxTextures |-> [color_buffer |-> 0, depth_buffer |-> 0]]

\* CreateRenderTexture on the host's structure t: an image of half the screen
\* width, device-local memory for it, the two bound, and the image handed to
\* the host as the colour buffer.  No result of a driver call is looked at;
\* image and texture_image_memory are locals without initializer, so after
\* a failed call they hold the null handle or a handle no call returned.
CreateRenderTexture(r, f, t, screen_width, screen_height, wild) ==
  LET r0 == Record(Begin(r), "call", "CreateRenderTexture", VK_NULL_HANDLE, <<t>>)
      oki == Ok(f, "Image", t)
      image == IF oki THEN r0.next_handle ELSE wild
      r1 == vkCreate(r0, "Image", VK_NULL_HANDLE,
                     <<screen_width \div 2, screen_height>>, oki)
      found == VulkanRenderer_FindMemoryType(
                 r1, MemoryTypeBits(r1, f, oki),
                 VK_MEMORY_PROPERTY_DEVICE_LOCAL_BIT)
      okm == Ok(f, "ImageMemory", t)
      texture_image_memory == IF okm THEN found.r.next_handle ELSE wild
      r2 == vkCreate(found.r, "Memory", VK_NULL_HANDLE, <<found.index>>, okm)
      \* vkBindImageMemory
      r3 == IF image \in r2.live /\ texture_image_memory \in r2.live
            THEN [r2 EXCEPT !.objs[image].dep = texture_image_memory]
            ELSE r2
      r4 == Record(r3, "BindImageMemory", "Image", image,
                   <<texture_image_memory>>)
  IN [r4 EXCEPT !.render_textures[t] =
                   [color_buffer |-> image, depth_buffer |-> 0]]

\* DestroyRenderTexture: the two fields of the host's structure are zeroed.
DestroyRenderTexture(r, t) ==
  [Record(Begin(r), "call", "DestroyRenderTexture", VK_NULL_HANDLE, <<t>>)
     EXCEPT !.render_textures[t] = [color_buffer |-> 0, depth_buffer |-> 0]]

\* The host's current command buffer as far as render passes go:
\* EnsureOutsideRenderPass of the host's interface ends what is open,
\* vkCmdBeginRenderPass opens a render pass, vkCmdEndRenderPass ends the open
\* one.
EnsureOutsideRenderPass(r) == [r EXCEPT !.open_passes = 0]

vkCmdBeginRenderPass(r, framebuffer, extent) ==
  [Record(r, "CmdBeginRenderPass", "Framebuffer", framebuffer, extent)
     EXCEPT !.open_passes = @ + 1]

vkCmdEndRenderPass(r) ==
  [Record(r, "CmdEndRenderPass", "RenderPass", VK_NULL_HANDLE, <<>>)
     EXCEPT !.open_passes = IF @ > 0 THEN @ - 1 ELSE 0]

\* The dimension check of the pre-processing.
DimensionsChanged(r, sp) ==
  \/ sp.viewport_width # r.current_rendering_width_
  \/ sp.viewport_height # r.current_rendering_height_

\* Pre-processing that rebuilds the framebuffer and leaves the counter as it
\* is.
RunRenderingPreProcessing_KeepsCounter(r, sp, f, wild) ==
  LET r0 == EnsureOutsideRenderPass(
              Record(Begin(r), "call", "RunRenderingPreProcessing",
                     VK_NULL_HANDLE, <<sp.width, sp.height>>))
      r1 == IF DimensionsChanged(r0, sp)
            THEN [r0 EXCEPT
                    !.frames_to_update_count_ = r0.swapchain_image_count_,
                    !.current_rendering_width_ = sp.viewport_width,
                    !.current_rendering_height_ = sp.viewport_height]
            ELSE r0
      i == r1.image_index
      r2 == IF r1.frames_to_update_count_ > 0
            THEN LET old == At(r1.frame_buffers_, i, wild)
                     a == ReadAt(r1, "frame_buffers_", r1.frame_buffers_, i)
                     b == IF old # VK_NULL_HANDLE
                          THEN vkDestroy(a, "Framebuffer", old)
                          ELSE a
                     ok == Ok(f, "Framebuffer", 0)
                     fb == Out(b, old, ok, f.leave)
                     c == vkCreate(b, "Framebuffer",
                                   At(b.swapchain_views_, i, wild),
                                   <<sp.width, sp.height>>, ok)
                 IN [c EXCEPT
                       !.frame_buffers_ =
                          IF InRange(@, i) THEN [@ EXCEPT ![i + 1] = fb] ELSE @]
            ELSE r1
  IN vkCmdBeginRenderPass(ReadAt(r2, "frame_buffers_", r2.frame_buffers_, i),
                          At(r2.frame_buffers_, i, wild),
                          <<sp.width, sp.height>>)

\* wild is what an element past the end of frame_buffers_ reads as.
RunRenderingPreProcessing(r, sp, f, wild) ==
  LET r0 == EnsureOutsideRenderPass(
              Record(Begin(r), "call", "RunRenderingPreProcessing",
                     VK_NULL_HANDLE, <<sp.width, sp.height>>))
      r1 == IF DimensionsChanged(r0, sp)
            THEN [r0 EXCEPT
                    !.frames_to_update_count_ = r0.swapchain_image_count_,
                    !.current_rendering_width_ = sp.viewport_width,
                    !.current_rendering_height_ = sp.viewport_height]
            ELSE r0
      i == r1.image_index
      r2 == IF r1.frames_to_update_count_ > 0
            THEN LET old == At(r1.frame_buffers_, i, wild)
                     a == ReadAt(r1, "frame_buffers_", r1.frame_buffers_, i)
                     b == IF old # VK_NULL_HANDLE
                          THEN vkDestroy(a, "Framebuffer", old)
                          ELSE a
                     ok == Ok(f, "Framebuffer", 0)
                     fb == Out(b, old, ok, f.leave)
                     c == vkCreate(b, "Framebuffer",
                                   At(b.swapchain_views_, i, wild),
                                   <<sp.width, sp.height>>, ok)
                 IN [c EXCEPT
                       !.frame_buffers_ =
                          IF InRange(@, i) THEN [@ EXCEPT ![i + 1] = fb] ELSE @,
                       !.frames_to_update_count_ = @ - 1]
            ELSE r1
  IN vkCmdBeginRenderPass(ReadAt(r2, "frame_buffers_", r2.frame_buffers_, i),
                          At(r2.frame_buffers_, i, wild),
                          <<sp.width, sp.height>>)

\* RunRenderingPostProcessing ending the render pass only after a frame
\* whose framebuffer was rebuilt.
RunRenderingPostProcessing_EndAfterRebuild(r) ==
  IF r.frames_to_update_count_ > 0 THEN vkCmdEndRenderPass(Begin(r))
  ELSE Begin(r)

RunRenderingPostProcessing(r) == vkCmdEndRenderPass(Begin(r))

(***************************************************************************)
(* The state before anything is constructed.                               *)
(***************************************************************************)
NoPass == 0 - 2

\* What the host saw of its last call into the interceptor: the call, the
\* driver's result and what the host reads as the result of the call, the
\* contents of its output variable after the call, the address a resolution
\* returned, and the swapchain handle and image index the driver wrote last.
NoHostCall ==
  [call |-> "none", instance |-> 0, name |-> "",
   driver_result |-> VK_SUCCESS, hook_result |-> VK_SUCCESS,
   out |-> 0, result |-> NullAddress,
   swapchain_written |-> VK_NULL_HANDLE, index_written |-> 0]

Init ==
  /\ cached_swapchain = VK_NULL_HANDLE
  /\ image_index = 0
  /\ swapchain_size = 0
  /\ vr_life = "none"
  /\ vulkan_interface_ = FALSE
  /\ logical_device_ = VK_NULL_HANDLE
  /\ current_rendering_width_ = 0
  /\ current_rendering_height_ = 0
  /\ swapchain_image_count_ = 0
  /\ frames_to_update_count_ = 0
  /\ render_pass_ = VK_NULL_HANDLE
  /\ swapchain_views_ = <<>>
  /\ frame_buffers_ = <<>>
  /\ wr_life = "none"
  /\ widget_image_count_ = 0
  /\ descriptor_set_layout_ = VK_NULL_HANDLE
  /\ pipeline_layout_ = VK_NULL_HANDLE
  /\ graphics_pipeline_ = VK_NULL_HANDLE
  /\ vertex_buffers_ = <<>>
  /\ vertex_buffers_memory_ = <<>>
  /\ index_buffers_ = VK_NULL_HANDLE
  /\ index_buffers_memory_ = VK_NULL_HANDLE
  /\ descriptor_pool_ = VK_NULL_HANDLE
  /\ descriptor_sets_ = <<>>
  /\ image_views_ = <<>>
  /\ texture_sampler_ = VK_NULL_HANDLE
  /\ current_render_pass_ = VK_NULL_HANDLE
  /\ next_handle = MaxRenderPass + 1
  /\ live = {}
  /\ objs = <<>>
  /\ log = <<>>
  /\ since_change = 0 - 1
  /\ requested = <<0, 0>>
  /\ stable = TRUE
  /\ pipeline_built_for = NoPass
  /\ calls = 0
  /\ failures = 0
  /\ Orig_GetInstanceProcAddr = 0
  /\ Orig_vkCreateSwapchainKHR = NullAddress
  /\ Orig_vkAcquireNextImageKHR = NullAddress
  /\ vulkan_loaded = FALSE
  /\ indices_count_ = 0
  /\ open_passes = 0
  /\ host = NoHostCall
  /\ frame_phase = "idle"
  /\ stale_count = <<>>
  /\ physical_device = DefaultDevice
  /\ render_textures = NoRenderTextures

(***************************************************************************)
(* The frame target: hooks and VulkanRenderer.                             *)
(***************************************************************************)
HookCreateSwapchain ==
  \E n \in 1..MaxImages :
    /\ cached_swapchain = VK_NULL_HANDLE
    /\ Install(Hook_vkCreateSwapchainKHR(St, n, TRUE, VK_NULL_HANDLE))

HookAcquireNextImage ==
  \E i \in 0..(swapchain_size - 1) :
    /\ cached_swapchain # VK_NULL_HANDLE
    /\ Install(Hook_vkAcquireNextImageKHR(St, i, TRUE, image_index))

ConstructorSites ==
  {<<"ImageView", i>> : i \in 0..(MaxImages - 1)} \cup {<<"RenderPass", 0>>}

\* MakeVulkanRenderer: the host has created its swapchain before.
MakeVulkanRenderer ==
  \E available \in BOOLEAN, device \in IndeterminateHandle,
     count \in IndeterminateCount, pending \in IndeterminateCount,
     pass \in IndeterminateHandle, f \in FailChoices(ConstructorSites) :
    /\ vr_life = "none"
    /\ cached_swapchain # VK_NULL_HANDLE
    /\ Install([VulkanRenderer(St, available, device, count, pending, pass, f)
                  EXCEPT !.failures = @ + Failed(f)])

Min(a, b) == IF a < b THEN a ELSE b

\* The host calls the per-frame operations of a renderer that has its
\* graphics interface.
PreProcessing ==
  \E sp \in ScreenParamsSet, f \in FailChoices({<<"Framebuffer", 0>>}),
     wild \in IndeterminateHandle :
    /\ vr_life = "alive"
    /\ vulkan_interface_
    /\ calls < MaxFrames
    /\ LET changed == DimensionsChanged(St, sp)
           clean == f = NoFail /\ InRange(frame_buffers_, image_index)
       IN Install([RunRenderingPreProcessing(St, sp, f, wild) EXCEPT
             !.calls = @ + 1,
             !.failures = @ + Failed(f),
             !.since_change =
                IF changed THEN 0
                ELSE IF @ < 0 THEN @ ELSE Min(@ + 1, MaxImages + 1),
             !.requested = IF changed THEN <<sp.width, sp.height>> ELSE @,
             !.stable = IF changed THEN clean
                        ELSE @ /\ clean /\ requested = <<sp.width, sp.height>>])

PostProcessing ==
  /\ vr_life = "alive"
  /\ vulkan_interface_
  /\ Install(RunRenderingPostProcessing(St))

DestroyVulkanRenderer ==
  \E wild \in IndeterminateHandle :
    /\ vr_life = "alive"
    /\ Install(VulkanRendererDestructor(St, wild))

NextRenderer ==
  \/ HookCreateSwapchain
  \/ HookAcquireNextImage
  \/ MakeVulkanRenderer
  \/ PreProcessing
  \/ PostProcessing
  \/ DestroyVulkanRenderer

SpecRenderer == Init /\ [][NextRenderer]_vars

(***************************************************************************)
(* The widgets renderer on its own: the caller passes the render pass.     *)
(***************************************************************************)
\* The render passes a caller passes, and what current_render_pass_ may hold
\* before the first call assigns it.
RenderPasses == 1..MaxRenderPass
IndeterminatePass == IndeterminateHandle \cup RenderPasses
\* What indices_count_ may hold before CreateIndexBuffer assigns it.
IndeterminateIndexCount == {0, Len(QuadIndices) + 1}

SharedSites ==
  {<<"DescriptorSetLayout", 0>>, <<"PipelineLayout", 0>>, <<"Sampler", 0>>,
   <<"Buffer", 0 - 1>>, <<"Memory", 0 - 1>>, <<"MapMemory", 0 - 1>>}

NewWidgetsRenderer ==
  \E loaded \in BOOLEAN, sampler \in IndeterminateHandle,
     pass \in IndeterminatePass, count \in IndeterminateIndexCount,
     f \in FailChoices(SharedSites) :
    /\ wr_life = "none"
    /\ loaded \/ (f = NoFail /\ failures < MaxFailures)
    /\ Install([VulkanWidgetsRenderer(St, loaded, sampler, pass, count, f)
                  EXCEPT !.failures = @ + IF loaded THEN Failed(f) ELSE 1])

RenderSites(n) ==
  {<<"DescriptorPool", 0>>, <<"DescriptorSet", 0>>, <<"Pipeline", 0>>,
   <<"ShaderModule", 0>>, <<"ShaderModule", 1>>}
  \cup {<<k, i>> : k \in {"Buffer", "Memory", "MapMemory", "ImageView"},
                   i \in 0..(n - 1)}

\* The pipeline work of a handler, read off its call log.
PipelineWork(l) ==
  {i \in 1..Len(l) : l[i].kind = "Pipeline"
                     /\ l[i].op \in {"create", "create_failed", "destroy"}}

RenderWidgetsCall ==
  \E screen_params \in WidgetScreenParams, widgets_params \in WidgetLists,
     render_pass \in RenderPasses, f \in FailChoices(RenderSites(MaxWidgets)) :
    /\ wr_life = "alive"
    /\ calls < MaxRenders
    /\ f.site \in RenderSites(Len(widgets_params)) \cup {NoFail.site}
    /\ LET r == RenderWidgets(St, f, screen_params, widgets_params,
                              render_pass)
       IN Install([r EXCEPT
             !.calls = @ + 1,
             !.failures = @ + Failed(f),
             !.pipeline_built_for =
                IF PipelineWork(r.log) # {} THEN render_pass ELSE @])

DeleteWidgetsRenderer ==
  \E wild \in IndeterminateHandle :
    /\ wr_life = "alive"
    /\ Install(WidgetsRendererDestructor(St, wild))

\* The owner's TeardownWidgets: it may be called again after the widgets
\* renderer is gone.
TeardownWidgetsCall ==
  \E wild \in IndeterminateHandle :
    /\ wr_life \in {"alive", "dead"}
    /\ Install(TeardownWidgetsCalled(St, wild))

NextWidgets ==
  \/ NewWidgetsRenderer
  \/ RenderWidgetsCall
  \/ DeleteWidgetsRenderer
  \/ TeardownWidgetsCall

SpecWidgets == Init /\ [][NextWidgets]_vars

(***************************************************************************)
(* The geometry of the widgets: one call with one widget, its rectangle    *)
(* and the viewport drawn from small sets, no failing driver call.         *)
(***************************************************************************)
GeometryWidgets ==
  [texture : {1}, x : 0..MaxCoord, y : 0..MaxCoord,
   width : 1..MaxCoord, height : 1..MaxCoord]
GeometryScreens ==
  [viewport_width : 0..(MaxCoord + 1), viewport_height : 0..(MaxCoord + 1),
   width : {1}, height : {1}]

RenderQuad ==
  \E screen_params \in GeometryScreens, widget_params \in GeometryWidgets :
    /\ wr_life = "alive"
    /\ vulkan_loaded
    /\ failures = 0
    /\ calls = 0
    /\ Install([RenderWidgets(St, NoFail, screen_params, <<widget_params>>, 1)
                  EXCEPT !.calls = @ + 1])

NextGeometry ==
  \/ NewWidgetsRenderer
  \/ RenderQuad

SpecGeometry == Init /\ [][NextGeometry]_vars

(***************************************************************************)
(* The frame target over a longer run in which no driver call fails: the   *)
(* host may replace its swapchain while the renderer lives.                *)
(***************************************************************************)
Swapchains(o) == {h \in DOMAIN o : o[h].kind = "Swapchain"}

\* The host creates another swapchain; the hook replaces the cached handle.
HookRecreateSwapchain ==
  \E n \in 1..MaxImages :
    /\ vr_life = "alive"
    /\ Cardinality(Swapchains(objs)) < MaxSwapchains
    /\ Install(Hook_vkCreateSwapchainKHR(St, n, TRUE, VK_NULL_HANDLE))

MakeSteadyRenderer ==
  \E device \in IndeterminateHandle, count \in IndeterminateCount,
     pending \in IndeterminateCount, pass \in IndeterminateHandle :
    /\ vr_life = "none"
    /\ cached_swapchain # VK_NULL_HANDLE
    /\ LET r == VulkanRenderer(St, TRUE, device, count, pending, pass, NoFail)
       IN Install([r EXCEPT
             !.stale_count = [i \in 1..r.swapchain_image_count_ |-> 0]])

\* How often image i was presented since the last dimension change with a
\* framebuffer built before it and of another size than the frame asks for;
\* -1 once its framebuffer was rebuilt.
Presented(count, r, i, sp, changed) ==
  LET base == IF changed THEN [k \in DOMAIN count |-> 0] ELSE count
      rebuilt == \E k \in 1..Len(r.log) :
                   r.log[k].op = "create" /\ r.log[k].kind = "Framebuffer"
      shown == r.log[Len(r.log)].h
  IN IF ~InRange(base, i) THEN base
     ELSE IF rebuilt THEN [base EXCEPT ![i + 1] = 0 - 1]
     ELSE IF /\ base[i + 1] >= 0
             /\ shown \in r.live
             /\ r.objs[shown].arg # <<sp.width, sp.height>>
          THEN [base EXCEPT ![i + 1] = Min(@ + 1, 2)]
          ELSE base

\* The screen parameters of the longer run: a viewport without height and
\* the 1x1 target, or the largest viewport and the wider target.
SteadyScreenParams ==
  {sp \in ScreenParamsSet :
     sp.viewport_width = MaxDim
     /\ (sp.viewport_height = MaxDim <=> sp.width > 1)}

PresentFrame ==
  \E sp \in SteadyScreenParams, wild \in IndeterminateHandle :
    /\ vr_life = "alive"
    /\ calls < MaxPresents
    /\ LET changed == DimensionsChanged(St, sp)
           r == RunRenderingPreProcessing(St, sp, NoFail, wild)
       IN Install([r EXCEPT
             !.calls = @ + 1,
             !.requested = IF changed THEN <<sp.width, sp.height>> ELSE @,
             !.stale_count = Presented(@, r, image_index, sp, changed)])

NextSteady ==
  \/ HookCreateSwapchain
  \/ HookRecreateSwapchain
  \/ HookAcquireNextImage
  \/ MakeSteadyRenderer
  \/ PresentFrame

SpecSteady == Init /\ [][NextSteady]_vars

(***************************************************************************)
(* The whole frame: the host acquires an image and calls pre-processing,   *)
(* RenderWidgets and post-processing in this order; the VulkanRenderer     *)
(* owns the widgets renderer.                                              *)
(***************************************************************************)
AcquireForFrame ==
  \E i \in 0..(swapchain_size - 1) :
    /\ cached_swapchain # VK_NULL_HANDLE
    /\ frame_phase = "idle"
    /\ ~Crashed(St)
    /\ Install(Hook_vkAcquireNextImageKHR(St, i, TRUE, image_index))

\* The host sets the widgets up once the renderer exists.
SetupWidgetsCall ==
  \E loaded \in BOOLEAN, sampler \in IndeterminateHandle,
     pass \in IndeterminateHandle, count \in IndeterminateIndexCount,
     f \in FailChoices(SharedSites) :
    /\ vr_life = "alive"
    /\ vulkan_interface_
    /\ wr_life = "none"
    /\ frame_phase = "idle"
    /\ loaded \/ (f = NoFail /\ failures < MaxFailures)
    /\ Install([SetupWidgets(St, loaded, sampler, pass, count, f)
                  EXCEPT !.failures = @ + IF loaded THEN Failed(f) ELSE 1])

FramePre ==
  \E sp \in SteadyScreenParams, f \in FailChoices({<<"Framebuffer", 0>>}),
     wild \in IndeterminateHandle :
    /\ vr_life = "alive"
    /\ vulkan_interface_
    /\ frame_phase = "idle"
    /\ ~Crashed(St)
    /\ calls < MaxOverlays
    /\ Install([RunRenderingPreProcessing(St, sp, f, wild) EXCEPT
                  !.calls = @ + 1, !.failures = @ + Failed(f),
                  !.frame_phase = "open"])

FrameWidgets ==
  \E screen_params \in WidgetScreenParams, widgets_params \in WidgetLists,
     f \in FailChoices(RenderSites(MaxWidgets)) :
    /\ vr_life = "alive"
    /\ wr_life = "alive"
    /\ frame_phase \in {"open", "eyes"}
    /\ f.site \in RenderSites(Len(widgets_params)) \cup {NoFail.site}
    /\ Install([VulkanRenderer_RenderWidgets(St, f, screen_params,
                                              widgets_params) EXCEPT
                  !.failures = @ + Failed(f), !.frame_phase = "drawn"])

\* Post-processing that also gives up the framebuffer updates still pending.
FramePost_ClearsPending ==
  /\ vr_life = "alive"
  /\ frame_phase \in {"open", "eyes", "drawn"}
  /\ ~Crashed(St)
  /\ Install([RunRenderingPostProcessing(St) EXCEPT
                !.frame_phase = "idle", !.frames_to_update_count_ = 0])

\* The host has the eyes rendered inside the frame's render pass.
FrameEyes ==
  /\ vr_life = "alive"
  /\ frame_phase = "open"
  /\ ~Crashed(St)
  /\ Install([RenderEyesToDisplay(St) EXCEPT !.frame_phase = "eyes"])

FramePost ==
  /\ vr_life = "alive"
  /\ frame_phase \in {"open", "eyes", "drawn"}
  /\ ~Crashed(St)
  /\ Install([RunRenderingPostProcessing(St) EXCEPT !.frame_phase = "idle"])

\* The host destroys the renderer between two frames.
DestroyBetweenFrames ==
  \E wild \in IndeterminateHandle :
    /\ vr_life = "alive"
    /\ frame_phase = "idle"
    /\ ~Crashed(St)
    /\ Install(VulkanRendererDestructor(St, wild))

\* The host tears the widgets down between two frames, whether or not it
\* has set them up and whether or not it has torn them down before.
TeardownWidgetsBetweenFrames ==
  \E wild \in IndeterminateHandle :
    /\ vr_life = "alive"
    /\ frame_phase = "idle"
    /\ ~Crashed(St)
    /\ Install(TeardownWidgetsCalled(St, wild))

NextFrame ==
  \/ HookCreateSwapchain
  \/ AcquireForFrame
  \/ MakeSteadyRenderer
  \/ SetupWidgetsCall
  \/ FramePre
  \/ FrameEyes
  \/ FrameWidgets
  \/ FramePost
  \/ TeardownWidgetsBetweenFrames
  \/ DestroyBetweenFrames

SpecFrame == Init /\ [][NextFrame]_vars

(***************************************************************************)
(* The render textures: the host has render textures created and destroyed *)
(* while the renderer lives, and destroys the renderer.                    *)
(***************************************************************************)
TextureSites(t) == {<<"Image", t>>, <<"ImageMemory", t>>}

CreateRenderTextureCall ==
  \E t \in 1..MaxTextures :
  \E sp \in SteadyScreenParams, wild \in IndeterminateHandle,
     f \in FailChoices(TextureSites(t)) :
    /\ vr_life = "alive"
    /\ calls < MaxTextures
    /\ Install([CreateRenderTexture(St, f, t, sp.width, sp.height, wild)
                  EXCEPT !.calls = @ + 1, !.failures = @ + Failed(f)])

DestroyRenderTextureCall ==
  \E t \in 1..MaxTextures :
    /\ vr_life = "alive"
    /\ Install(DestroyRenderTexture(St, t))

NextTextures ==
  \/ HookCreateSwapchain
  \/ MakeSteadyRenderer
  \/ CreateRenderTextureCall
  \/ DestroyRenderTextureCall
  \/ DestroyVulkanRenderer

SpecTextures == Init /\ [][NextTextures]_vars

(***************************************************************************)
(* The memory types: the host runs on any of the physical devices; the     *)
(* widgets renderer allocates the memory of its index buffer, the renderer *)
(* that of a render texture.                                               *)
(***************************************************************************)
HostStartsOnDevice ==
  \E device \in Devices :
    /\ vr_life = "none"
    /\ wr_life = "none"
    /\ cached_swapchain = VK_NULL_HANDLE
    /\ physical_device = DefaultDevice
    /\ Install([St EXCEPT !.physical_device = device])

\* The widgets renderer on its own.
NewWidgetsRendererAlone ==
  /\ cached_swapchain = VK_NULL_HANDLE
  /\ NewWidgetsRenderer

\* The host's swapchain for a renderer without widgets.
HookCreateSwapchainAlone ==
  /\ wr_life = "none"
  /\ HookCreateSwapchain

\* The first render texture the host has created.
FirstRenderTexture ==
  /\ calls = 0
  /\ CreateRenderTextureCall

NextMemoryTypes ==
  \/ HostStartsOnDevice
  \/ NewWidgetsRendererAlone
  \/ HookCreateSwapchainAlone
  \/ MakeSteadyRenderer
  \/ FirstRenderTexture

SpecMemoryTypes == Init /\ [][NextMemoryTypes]_vars

(***************************************************************************)
(* The interceptor on its own: the host hands over its resolver, resolves  *)
(* names through the wrapped one and calls what it got.                    *)
(***************************************************************************)
\* The host's view after a call, keeping what the driver wrote last.
HostCall(call) ==
  [NoHostCall EXCEPT !.call = call,
                     !.swapchain_written = host.swapchain_written,
                     !.index_written = host.index_written]

\* The host registers the interception once, while it initializes graphics.
RegisterInterception ==
  \E g \in 1..MaxResolvers :
    /\ Orig_GetInstanceProcAddr = 0
    /\ Install([InterceptVulkanInitialization(St, g) EXCEPT
                  !.host = HostCall("InterceptVulkanInitialization")])

\* The wrapped resolver exists once the host's resolver was handed over.
ResolveName ==
  \E instance \in 1..MaxInstances, pName \in Names :
    /\ Orig_GetInstanceProcAddr # 0
    /\ LET c == MyGetInstanceProcAddr(St, instance, pName)
       IN Install([c.r EXCEPT
             !.host = [HostCall("vkGetInstanceProcAddr") EXCEPT
                         !.instance = instance, !.name = pName,
                         !.result = c.result]])

\* What the host's output variable may hold before it calls: null, a value
\* no driver returned, or the handle of its current swapchain.
\* The hooks are declared void: what the host reads as their result (ret) is
\* whatever the result register holds.
InterceptedCreateSwapchain ==
  \E n \in 1..MaxImages, ok \in BOOLEAN,
     pSwapchain \in IndeterminateHandle \cup {cached_swapchain},
     ret \in ResultCodes :
    /\ Cardinality(Swapchains(objs)) < MaxSwapchains
    /\ ok \/ failures < MaxFailures
    /\ Install([Hook_vkCreateSwapchainKHR(St, n, ok, pSwapchain) EXCEPT
          !.failures = @ + IF ok THEN 0 ELSE 1,
          !.host = [HostCall("vkCreateSwapchainKHR") EXCEPT
                      !.driver_result =
                         IF ok THEN VK_SUCCESS ELSE VK_ERROR_DEVICE_LOST,
                      !.hook_result = ret,
                      !.out = IF ok THEN next_handle ELSE pSwapchain,
                      !.swapchain_written =
                         IF ok THEN next_handle ELSE @]])

InterceptedAcquireNextImage ==
  \E i \in 0..(swapchain_size - 1), ok \in BOOLEAN,
     pImageIndex \in 0..MaxImages, ret \in ResultCodes :
    /\ ok \/ failures < MaxFailures
    /\ Install([Hook_vkAcquireNextImageKHR(St, i, ok, pImageIndex) EXCEPT
          !.failures = @ + IF ok THEN 0 ELSE 1,
          !.host = [HostCall("vkAcquireNextImageKHR") EXCEPT
                      !.driver_result =
                         IF ok THEN VK_SUCCESS ELSE VK_ERROR_DEVICE_LOST,
                      !.hook_result = ret,
                      !.out = IF ok THEN i ELSE pImageIndex,
                      !.index_written = IF ok THEN i ELSE @]])

NextInterceptor ==
  \/ RegisterInterception
  \/ ResolveName
  \/ InterceptedCreateSwapchain
  \/ InterceptedAcquireNextImage

SpecInterceptor == Init /\ [][NextInterceptor]_vars

(***************************************************************************)
(* Properties of the frame target (SpecRenderer).                          *)
(***************************************************************************)
\* The handler that ran last, and its driver calls.
LastCall == IF log = <<>> THEN "none" ELSE log[1].kind
Destroys == {i \in 1..Len(log) : log[i].op = "destroy" /\ log[i].h # VK_NULL_HANDLE}
OutOfBounds == {i \in 1..Len(log) : log[i].op = "out_of_bounds"}

\* C1: the pending-update counter of a renderer that has its graphics
\* interface is at most the swapchain image count in every state, also before
\* the first dimension change (stated for runs without a failed call).
C1_CounterWithinImageCount ==
  (vr_life = "alive" /\ vulkan_interface_ /\ failures = 0)
    => frames_to_update_count_ <= swapchain_image_count_

\* C2: once image_count further pre-processing calls have run after a
\* dimension change, with the same target size, no failed driver call and no
\* further dimension change, the framebuffer of every swapchain image is live
\* and has the requested size, whatever the order of the acquired indices.
C2_AllFramebuffersRefreshed ==
  (/\ vr_life = "alive"
   /\ vulkan_interface_
   /\ failures = 0
   /\ stable
   /\ since_change >= swapchain_image_count_)
    => \A i \in 1..Len(frame_buffers_) :
         /\ frame_buffers_[i] \in live
         /\ objs[frame_buffers_[i]].arg = requested

\* C7: no handle the driver created is passed to a destroy or free call
\* again after it was destroyed.
C7_NoDoubleFree ==
  \A i \in Destroys : log[i].known => log[i].was_live

\* C8: the teardown of a VulkanRenderer constructed without the graphics
\* interface makes no destroy call on a non-null handle and indexes no
\* per-image array out of bounds.
C8_TeardownOfUninitializedIsNoOp ==
  (LastCall = "~VulkanRenderer" /\ ~vulkan_interface_)
    => Destroys = {} /\ OutOfBounds = {}

\* C9: a VulkanRenderer constructed without the graphics interface has image
\* count zero, no image views, no framebuffers and null render pass and
\* device handles.
C9_NullHandleStateAfterEarlyReturn ==
  (vr_life = "alive" /\ ~vulkan_interface_)
    => /\ swapchain_image_count_ = 0
       /\ swapchain_views_ = <<>>
       /\ frame_buffers_ = <<>>
       /\ render_pass_ = VK_NULL_HANDLE
       /\ logical_device_ = VK_NULL_HANDLE

\* The work of a handler on framebuffers, read off its call log.
FramebufferCreates(l) ==
  {j \in 1..Len(l) : l[j].kind = "Framebuffer"
                     /\ l[j].op \in {"create", "create_failed"}}
FramebufferDestroys(l) ==
  {j \in 1..Len(l) : l[j].kind = "Framebuffer" /\ l[j].op = "destroy"}

\* C24: a pre-processing call whose pending-update counter is nonzero after
\* the dimension check destroys the framebuffer of the current image index
\* when there is one, makes one create call for that index, binding the
\* image view of that index, and takes exactly one off the counter; the
\* framebuffers of all other images stay as they are.  With the counter at
\* zero it creates and destroys no framebuffer.
C24_AtMostOneFramebufferPerCall ==
  [][calls' = calls + 1 =>
       LET changed == \/ current_rendering_width_' # current_rendering_width_
                      \/ current_rendering_height_' # current_rendering_height_
           pending == IF changed THEN swapchain_image_count_
                      ELSE frames_to_update_count_
           i == image_index + 1
           l == log'
       IN IF pending > 0
          THEN /\ frames_to_update_count_' = pending - 1
               /\ Cardinality(FramebufferCreates(l)) = 1
               /\ \A j \in FramebufferCreates(l) :
                    l[j].op = "create" =>
                      /\ frame_buffers_'[i] = l[j].h
                      /\ objs'[l[j].h].dep = swapchain_views_[i]
               /\ \A j \in FramebufferDestroys(l) :
                    /\ l[j].h = frame_buffers_[i]
                    /\ \A k \in FramebufferCreates(l) : j < k
               /\ Cardinality(FramebufferDestroys(l)) =
                    IF frame_buffers_[i] # VK_NULL_HANDLE THEN 1 ELSE 0
               /\ \A k \in 1..Len(frame_buffers_) :
                    k # i => frame_buffers_'[k] = frame_buffers_[k]
          ELSE /\ frames_to_update_count_' = 0
               /\ FramebufferCreates(l) = {}
               /\ FramebufferDestroys(l) = {}
               /\ frame_buffers_' = frame_buffers_]_vars

\* A pre-processing call replaced the live framebuffer of the second image
\* of three and left updates pending.
C24_Witness ==
  /\ LastCall = "RunRenderingPreProcessing"
  /\ image_index = 1
  /\ swapchain_image_count_ = 3
  /\ frames_to_update_count_ > 0
  /\ \E j \in FramebufferDestroys(log) : log[j].was_live
  /\ \E j \in FramebufferCreates(log) : log[j].op = "create"

\* The render pass a pre-processing call began: the last call of its log.
BeganRenderPass ==
  /\ LastCall = "RunRenderingPreProcessing"
  /\ log[Len(log)].op = "CmdBeginRenderPass"

\* C25: every render pass that pre-processing begins is begun on a non-null,
\* live framebuffer, for every sequence of viewport sizes and acquired image
\* indices (stated for runs without a failed call).
C25_RenderPassOnLiveFramebuffer ==
  (BeganRenderPass /\ failures = 0)
    => /\ log[Len(log)].h # VK_NULL_HANDLE
       /\ log[Len(log)].was_live

\* C26: the render area of every render pass that pre-processing begins on a
\* live framebuffer has the width and height the framebuffer was created
\* with (stated for runs without a failed call).
C26_RenderAreaIsFramebufferSize ==
  (BeganRenderPass /\ failures = 0 /\ log[Len(log)].was_live)
    => objs[log[Len(log)].h].arg = log[Len(log)].arg

\* C15: every driver call of the last handler that returned a failure is
\* followed at once by a record in the error log.
C15_FailedCallIsLogged ==
  \A i \in 1..Len(log) :
    log[i].op = "create_failed" => i < Len(log) /\ log[i + 1].op = "LOGE"

(***************************************************************************)
(* Properties of the widgets renderer (SpecWidgets).                       *)
(***************************************************************************)
\* A step of RenderWidgets, the only handler of SpecWidgets that counts.
RenderWidgetsStep == calls' = calls + 1

LivePools == {h \in live : objs[h].kind = "DescriptorPool"}

\* The calls of the last handler that (tried to) create an object of a kind
\* for a slot.
Populated(l, kind, slot) ==
  \E i \in 1..Len(l) : /\ l[i].op \in {"create", "create_failed"}
                       /\ l[i].kind = kind
                       /\ l[i].arg = <<slot>>

\* C3: a RenderWidgets call with M widgets after one with N leaves exactly M
\* slots, re-populates slots 0..min(N,M), and for M < N has destroyed the
\* image view, vertex buffer and memory of every slot from M on (stated for
\* runs without a failed call).
C3_SlotsResizedAndReleased ==
  [][(RenderWidgetsStep /\ failures' = 0) =>
       LET N == Len(vertex_buffers_)
           M == widget_image_count_'
       IN /\ Len(descriptor_sets_') = M
          /\ Len(image_views_') = M
          /\ Len(vertex_buffers_') = M
          /\ Len(vertex_buffers_memory_') = M
          /\ \A s \in 0..(Min(N, M) - 1) :
               Populated(log', "Buffer", s) /\ Populated(log', "ImageView", s)
          /\ \A i \in (M + 1)..N :
               /\ image_views_[i] \notin live'
               /\ vertex_buffers_[i] \notin live'
               /\ vertex_buffers_memory_[i] \notin live']_vars

\* C4: at most one descriptor pool the renderer created is live (stated for
\* runs without a failed call).
C4_AtMostOneLivePool == failures = 0 => Cardinality(LivePools) <= 1

\* C5: a RenderWidgets call does pipeline work (destroy or create) exactly
\* when its render pass is not the one the pipeline was last built against
\* (stated for runs without a failed call).
C5_RebuildIffRenderPassDiffers ==
  [][(RenderWidgetsStep /\ failures' = 0) =>
       (PipelineWork(log') # {} <=> log'[1].h # pipeline_built_for)]_vars

\* C6: every draw of a RenderWidgets call without a failed driver call binds
\* a live pipeline built against the render pass of the call.
C6_DrawBindsLivePipelineOfRenderPass ==
  (LastCall = "RenderWidgets" /\ failures = 0)
    => \A i \in 1..Len(log) :
         log[i].op = "CmdDrawIndexed"
           => /\ log[i].was_live
              /\ objs[log[i].h].arg = <<log[1].h>>

\* The indexed draws of the last handler, and its work on vertex buffers.
Draws == {i \in 1..Len(log) : log[i].op = "CmdDrawIndexed"}
VertexBufferWork(l) ==
  {i \in 1..Len(l) : l[i].kind \in {"Buffer", "Memory"}
                     /\ l[i].op \in {"create", "create_failed", "destroy",
                                     "BindBufferMemory", "MapMemory"}}

\* C16: a RenderWidgets call with M widgets that returns has recorded exactly
\* M indexed draws,
\* the k-th for slot k with the vertex buffer and the descriptor set of slot
\* k bound just before it, in list order, after the vertex buffer of every
\* slot was rebuilt and after the pipeline work of the call; each draw is of
\* the 6 quad indices when the constructor has built the shared index buffer.
C16_DrawsInListOrderAfterRebuilds ==
  (LastCall = "RenderWidgets" /\ wr_life = "alive") =>
    LET M == log[1].arg[1]
    IN /\ Cardinality(Draws) = M
       /\ \A k \in 0..(M - 1) :
            \E i \in Draws :
              /\ log[i].arg[1] = k
              /\ vulkan_loaded => log[i].arg[2] = 6
              /\ log[i - 2].op = "CmdBindVertexBuffers"
              /\ log[i - 2].h = vertex_buffers_[k + 1]
              /\ log[i - 1].op = "CmdBindDescriptorSets"
              /\ log[i - 1].h = descriptor_sets_[k + 1]
              /\ \E j \in 1..(i - 1) : /\ log[j].op \in {"create", "create_failed"}
                                      /\ log[j].kind = "Buffer"
                                      /\ log[j].arg = <<k>>
       /\ \A i \in Draws, j \in Draws : i < j => log[i].arg[1] < log[j].arg[1]
       /\ \A i \in Draws, j \in VertexBufferWork(log) \cup PipelineWork(log) :
            j < i

\* Two widgets were drawn by a call that also rebuilt the pipeline.
C16_Witness ==
  /\ LastCall = "RenderWidgets"
  /\ vulkan_loaded
  /\ Cardinality(Draws) = 2
  /\ PipelineWork(log) # {}
  /\ graphics_pipeline_ \in live

\* The place of a kind of object in the teardown of the widgets renderer.
TeardownRank(kind) ==
  CASE kind = "ImageView" -> 1
    [] kind = "Sampler" -> 2
    [] kind = "PipelineLayout" -> 3
    [] kind = "DescriptorSetLayout" -> 4
    [] kind = "DescriptorPool" -> 5
    [] kind = "Pipeline" -> 6
    [] kind = "Buffer" -> 7
    [] OTHER -> 0

Ranked(l) == {i \in 1..Len(l) : l[i].op = "destroy" /\ TeardownRank(l[i].kind) > 0}
Destroyed(l, kind, h) ==
  \E i \in 1..Len(l) : l[i].op = "destroy" /\ l[i].kind = kind /\ l[i].h = h

\* C18: the teardown of a live widgets renderer passes to the driver's
\* destroy calls the texture view of every slot, the sampler, the pipeline
\* layout, the descriptor-set layout, the descriptor pool, the pipeline (when
\* there is one) and the index buffer, in this order, none of them a handle
\* that was released before; a teardown of a renderer that is already torn
\* down makes no destroy call.
C18_TeardownOrderAndReentry ==
  [][/\ (wr_life = "alive" /\ wr_life' = "dead") =>
          LET l == log'
          IN /\ \A i \in Ranked(l), j \in Ranked(l) :
                  i < j => TeardownRank(l[i].kind) <= TeardownRank(l[j].kind)
             /\ \A k \in 1..Len(image_views_) :
                  image_views_[k] # VK_NULL_HANDLE =>
                    Destroyed(l, "ImageView", image_views_[k])
             /\ Destroyed(l, "Sampler", texture_sampler_)
             /\ Destroyed(l, "PipelineLayout", pipeline_layout_)
             /\ Destroyed(l, "DescriptorSetLayout", descriptor_set_layout_)
             /\ Destroyed(l, "DescriptorPool", descriptor_pool_)
             /\ graphics_pipeline_ # VK_NULL_HANDLE =>
                  Destroyed(l, "Pipeline", graphics_pipeline_)
             /\ Destroyed(l, "Buffer", index_buffers_)
             /\ \A i \in Ranked(l) :
                  (l[i].kind # "Buffer" \/ l[i].h = index_buffers_)
                    => (l[i].known => l[i].was_live)
     /\ (wr_life = "dead" /\ log' # log) =>
          \A i \in 1..Len(log') : log'[i].op # "destroy"]_vars

\* TeardownWidgets was called again after a teardown that destroyed a
\* pipeline.
C18_Witness ==
  /\ wr_life = "dead"
  /\ LastCall = "TeardownWidgets"
  /\ Len(log) = 1
  /\ \E h \in DOMAIN objs : objs[h].kind = "Pipeline" /\ h \notin live

\* C27: the widget count of a live widgets renderer is the size of the
\* image-view, vertex-buffer, vertex-memory and descriptor-set arrays, so
\* that every loop over the widgets stays inside them, also right after
\* construction.
C27_WidgetCountIsArraySize ==
  wr_life = "alive"
    => /\ widget_image_count_ = Len(image_views_)
       /\ widget_image_count_ = Len(vertex_buffers_)
       /\ widget_image_count_ = Len(vertex_buffers_memory_)
       /\ widget_image_count_ = Len(descriptor_sets_)

\* C28: a RenderWidgets call for M widgets returns and has recorded exactly
\* M indexed draws, whichever of its driver calls failed.
C28_FailedCallDoesNotAbortFrame ==
  LastCall = "RenderWidgets"
    => /\ wr_life = "alive"
       /\ Cardinality(Draws) = log[1].arg[1]

\* C10: no pipeline layout is destroyed while a pipeline created from it is
\* live, no image view while a framebuffer binding it is live, and no memory
\* is freed while a buffer bound to it is live (stated for runs without a
\* failed call).
C10_DestroyRespectsDependency ==
  failures = 0 =>
    \A i \in Destroys :
      log[i].kind \in {"PipelineLayout", "ImageView", "Memory"}
        => log[i].dependents = {}

(***************************************************************************)
(* Properties of the widget geometry (SpecGeometry).                       *)
(***************************************************************************)
\* The vertices the last handler copied into vertex memory, one sequence per
\* copy.
Copied == {i \in 1..Len(log) : log[i].op = "memcpy"}
\* a is the number n/d.
Equals(a, n, d) == Finite(a) /\ a[1] * d = n * a[2]
\* The values of coordinate c of the vertices q are lo/d and hi/d, both
\* taken.
Spans(q, c, lo, hi, d) ==
  /\ \A k \in 1..Len(q) : Equals(q[k][c], lo, d) \/ Equals(q[k][c], hi, d)
  /\ \E k \in 1..Len(q) : Equals(q[k][c], lo, d)
  /\ \E k \in 1..Len(q) : Equals(q[k][c], hi, d)

\* C21: for a widget (x, y, w, h) in a viewport W x V with W, V > 0, the
\* quad has four vertices whose y values are 1 - 2(y+h)/V and 1 - 2y/V and
\* whose x values are -1 + 2x/W and -1 + 2(x+w)/W; for y = 0 and h <= V the
\* lower y value is Lerp(-1, +1, (V-h)/V) and the other one is +1.
C21_QuadMirroredThroughViewportHeight ==
  (/\ LastCall = "RenderWidgets"
   /\ log[1].arg[1] = 1
   /\ log[1].arg[3].viewport_width > 0
   /\ log[1].arg[3].viewport_height > 0)
    => LET wp == log[1].arg[2][1]
           W == log[1].arg[3].viewport_width
           V == log[1].arg[3].viewport_height
       IN /\ Cardinality(Copied) = 1
          /\ \A i \in Copied :
               LET q == log[i].arg
               IN /\ Len(q) = 4
                  /\ Spans(q, 2, V - 2 * (wp.y + wp.height), V - 2 * wp.y, V)
                  /\ Spans(q, 1, 2 * wp.x - W, 2 * (wp.x + wp.width) - W, W)
                  /\ (wp.y = 0 /\ wp.height <= V) =>
                       /\ \E k \in 1..4 :
                            q[k][2] = Lerp(ToFloat(0 - 1), ToFloat(1),
                                           FDiv(ToFloat(V - wp.height),
                                                ToFloat(V)))
                       /\ \E k \in 1..4 : q[k][2] = ToFloat(1)

\* A widget of height 1 at y = 1 was drawn in a viewport of height 3: its
\* quad lies between y = -1/3 and y = 1/3.
C21_Witness ==
  /\ LastCall = "RenderWidgets"
  /\ log[1].arg[1] = 1
  /\ log[1].arg[2][1].y = 1
  /\ log[1].arg[3].viewport_height = 3
  /\ \E i \in Copied :
       /\ \E k \in 1..4 : log[i].arg[k][2] = <<0 - 1, 3>>
       /\ \E k \in 1..4 : log[i].arg[k][2] = <<1, 3>>

(***************************************************************************)
(* Properties of the frame target in runs without driver failures          *)
(* (SpecSteady).                                                           *)
(***************************************************************************)
\* C11: a pre-processing call indexes frame_buffers_ and swapchain_views_
\* with the process-wide image index inside their bounds, whatever swapchains
\* the host created and whatever images it acquired.
C11_ImageIndexWithinArrays ==
  LastCall = "RunRenderingPreProcessing" => OutOfBounds = {}

\* C20: since the last dimension change no swapchain image was presented
\* more than once with a framebuffer built before the change at another size
\* (stated for a host that keeps its first swapchain).
C20_StaleAtMostOnce ==
  Cardinality(Swapchains(objs)) = 1 =>
    \A i \in DOMAIN stale_count : stale_count[i] <= 1

(***************************************************************************)
(* Properties of the whole frame (SpecFrame).                              *)
(***************************************************************************)
Count(l, op) == Cardinality({i \in 1..Len(l) : l[i].op = op})

\* C17: on the frame sequence, pre-processing opens exactly one render pass
\* on the command buffer; the draws of RenderWidgets are recorded with that
\* render pass open, RenderWidgets itself neither opening nor ending one; and
\* after post-processing no render pass is open.
C17_DrawsInsideOneRenderPass ==
  /\ frame_phase = "open" =>
       open_passes = 1 /\ Count(log, "CmdBeginRenderPass") = 1
  /\ frame_phase = "drawn" =>
       /\ open_passes = 1
       /\ Count(log, "CmdBeginRenderPass") = 0
       /\ Count(log, "CmdEndRenderPass") = 0
  /\ frame_phase = "idle" =>
       /\ open_passes = 0
       /\ Count(log, "CmdEndRenderPass") <= 1
       /\ Count(log, "CmdBeginRenderPass") = 0

\* Two widgets were drawn between pre-processing and post-processing.
C17_Witness ==
  /\ frame_phase = "drawn"
  /\ Cardinality(Draws) = 2
  /\ open_passes = 1

\* C22: on a 3-image swapchain, one RenderWidgets call without a failed
\* driver call for the single widget (x=0, y=0, w=100, h=50) against the
\* viewport 1280x720 copies exactly 4 vertices, with x values -1 and
\* -1 + 2*100/1280 and y values 1 - 2*50/720 and +1, writes exactly one
\* descriptor set and records exactly one indexed draw, of 6 indices.
C22_OneWidgetEndToEnd ==
  (/\ LastCall = "RenderWidgets"
   /\ failures = 0
   /\ swapchain_image_count_ = 3
   /\ log[1].arg[2] = <<[texture |-> 1, x |-> 0, y |-> 0, width |-> 100,
                         height |-> 50]>>
   /\ log[1].arg[3].viewport_width = 1280
   /\ log[1].arg[3].viewport_height = 720)
    => /\ Cardinality(Copied) = 1
       /\ \A i \in Copied :
            /\ Len(log[i].arg) = 4
            /\ Spans(log[i].arg, 1, 0 - 1280, 200 - 1280, 1280)
            /\ Spans(log[i].arg, 2, 720 - 100, 720, 720)
       /\ Count(log, "UpdateDescriptorSets") = 1
       /\ Cardinality(Draws) = 1
       /\ \A i \in Draws : log[i].arg[2] = 6

\* The widget was drawn in a frame of a renderer of three swapchain images,
\* with no failed call so far.
C22_Witness ==
  /\ LastCall = "RenderWidgets"
  /\ frame_phase = "drawn"
  /\ failures = 0
  /\ swapchain_image_count_ = 3
  /\ Len(log[1].arg[2]) = 1
  /\ log[1].arg[2][1].width = 100
  /\ log[1].arg[3].viewport_width = 1280
  /\ Cardinality(Draws) = 1

\* The members of the widgets renderer.
WidgetsRendererState ==
  <<wr_life, widget_image_count_, descriptor_set_layout_, pipeline_layout_,
    graphics_pipeline_, vertex_buffers_, vertex_buffers_memory_,
    index_buffers_, index_buffers_memory_, descriptor_pool_, descriptor_sets_,
    image_views_, texture_sampler_, current_render_pass_, indices_count_>>

\* C23: post-processing records the end of the render pass on the command
\* buffer and nothing else: the pending-update counter, the cached
\* dimensions, the framebuffers, the image views, the render pass, the
\* widgets renderer and the driver's objects stay as they were.
C23_PostProcessingOnlyEndsRenderPass ==
  [][(frame_phase \in {"open", "eyes", "drawn"} /\ frame_phase' = "idle") =>
       /\ Len(log') = 1
       /\ log'[1].op = "CmdEndRenderPass"
       /\ open_passes' = open_passes - 1
       /\ UNCHANGED <<frames_to_update_count_, current_rendering_width_,
                      current_rendering_height_, frame_buffers_,
                      swapchain_views_, render_pass_, swapchain_image_count_,
                      cached_swapchain, image_index, live, objs, next_handle>>
       /\ UNCHANGED WidgetsRendererState]_vars

\* Post-processing ran for a renderer with a live widgets renderer, a built
\* framebuffer and framebuffer updates still pending.
C23_Witness ==
  /\ frame_phase = "idle"
  /\ Len(log) = 1
  /\ log[1].op = "CmdEndRenderPass"
  /\ wr_life = "alive"
  /\ frames_to_update_count_ > 0
  /\ \E k \in 1..Len(frame_buffers_) : frame_buffers_[k] \in live

\* C29: the cached swapchain handle and the image index change only in a
\* step of one of the two interception hooks: the construction of the
\* renderers, pre- and post-processing, RenderEyesToDisplay, RenderWidgets and
\* the teardown leave both as they are.
C29_BindingWrittenByHooksOnly ==
  [][\/ HookCreateSwapchain
     \/ AcquireForFrame
     \/ UNCHANGED <<cached_swapchain, image_index>>]_vars

\* The eyes were rendered for the second image of a swapchain.
C29_Witness ==
  /\ LastCall = "RenderEyesToDisplay"
  /\ log[1].arg = <<1>>
  /\ image_index = 1
  /\ cached_swapchain \in live

\* The kinds of object only the widgets renderer creates.
WidgetKinds ==
  {"Sampler", "PipelineLayout", "DescriptorSetLayout", "DescriptorPool",
   "Pipeline", "Buffer", "Memory"}

\* C30: the teardown of the VulkanRenderer destroys the widgets renderer,
\* and with it the pipeline built against the render pass, before it
\* destroys the render pass; and a TeardownWidgets call that finds no widgets
\* renderer, because none was set up or because it was torn down before,
\* makes no driver call.
C30_WidgetsGoBeforeRenderPass ==
  [][/\ (vr_life = "alive" /\ vr_life' = "dead") =>
          LET l == log'
              passes == {k \in 1..Len(l) : l[k].op = "destroy"
                                           /\ l[k].kind = "RenderPass"}
          IN /\ Cardinality(passes) = 1
             /\ wr_life' # "alive"
             /\ \A j \in 1..Len(l), k \in passes :
                  (l[j].op = "destroy" /\ l[j].kind \in WidgetKinds) => j < k
             /\ (wr_life = "alive" /\ graphics_pipeline_ # VK_NULL_HANDLE) =>
                  Destroyed(l, "Pipeline", graphics_pipeline_)
     /\ (/\ log' # log
         /\ log' # <<>>
         /\ log'[1].kind = "TeardownWidgets"
         /\ wr_life # "alive") => Len(log') = 1]_vars

\* The renderer was torn down while its widgets renderer held a live
\* pipeline.
C30_Witness ==
  /\ LastCall = "~VulkanRenderer"
  /\ vr_life = "dead"
  /\ wr_life = "dead"
  /\ \E j \in 1..Len(log) :
       log[j].op = "destroy" /\ log[j].kind = "Pipeline" /\ log[j].was_live

\* The teardown of the frame target destroys the framebuffer and then the
\* image view of every swapchain image, and the render pass last.
TargetsThenRenderPass ==
  LastCall = "~VulkanRenderer" =>
    /\ log[Len(log)].op = "destroy"
    /\ log[Len(log)].kind = "RenderPass"
    /\ log[Len(log)].h = render_pass_
    /\ \A i \in 1..(Len(log) - 1) : log[i].kind # "RenderPass"
    /\ \A k \in 1..swapchain_image_count_ :
         \E i \in 1..Len(log), j \in 1..Len(log) :
           /\ i < j
           /\ log[i].op = "destroy" /\ log[i].kind = "Framebuffer"
           /\ log[i].h = frame_buffers_[k]
           /\ log[j].op = "destroy" /\ log[j].kind = "ImageView"
           /\ log[j].h = swapchain_views_[k]

\* C19 as stated: the teardown destroys framebuffer and image view of every
\* image and the render pass last, and makes no framebuffer destroy call for
\* an image whose framebuffer was never built.
C19_NullFramebufferSkipped ==
  /\ TargetsThenRenderPass
  /\ LastCall = "~VulkanRenderer" =>
       \A i \in 1..Len(log) :
         ~(log[i].op = "destroy" /\ log[i].kind = "Framebuffer"
           /\ log[i].h = VK_NULL_HANDLE)

\* C19 as amended: the teardown destroys framebuffer and image view of every
\* image and the render pass last; for an image whose framebuffer was never
\* built the destroy call carries the null handle and releases nothing.
C19_TeardownDestroysTargetsThenRenderPass ==
  /\ TargetsThenRenderPass
  /\ LastCall = "~VulkanRenderer" =>
       \A k \in 1..swapchain_image_count_ :
         frame_buffers_[k] = VK_NULL_HANDLE =>
           \E i \in 1..Len(log) :
             /\ log[i].op = "destroy" /\ log[i].kind = "Framebuffer"
             /\ log[i].h = VK_NULL_HANDLE /\ ~log[i].was_live

\* A renderer of three images was torn down with one framebuffer built and
\* the widgets renderer alive.
C19_Witness ==
  /\ LastCall = "~VulkanRenderer"
  /\ swapchain_image_count_ = 3
  /\ \E k \in 1..3 : frame_buffers_[k] # VK_NULL_HANDLE
  /\ \E k \in 1..3 : frame_buffers_[k] = VK_NULL_HANDLE
  /\ wr_life = "dead"

(***************************************************************************)
(* Properties of the interceptor (SpecInterceptor).                        *)
(***************************************************************************)
HookedNames == {"vkCreateSwapchainKHR", "vkAcquireNextImageKHR"}
HookOf(name) == HookAddress("Hook_" \o name)

\* C12: a resolution through the wrapped resolver returns the hook exactly
\* for the two hooked names; for any other name it returns what the host's
\* resolver returns for that instance and name, and it leaves the
\* process-wide state as it was.
C12_ResolverHooksTwoNamesOnly ==
  [][host'.call = "vkGetInstanceProcAddr" =>
       /\ host'.name \in HookedNames => host'.result = HookOf(host'.name)
       /\ host'.name \notin HookedNames =>
            /\ host'.result = ResolveOriginal(Orig_GetInstanceProcAddr,
                                              host'.instance, host'.name)
            /\ UNCHANGED <<Orig_GetInstanceProcAddr,
                           Orig_vkCreateSwapchainKHR,
                           Orig_vkAcquireNextImageKHR,
                           cached_swapchain, image_index>>]_vars

\* A name next to a hooked one was resolved and passed through to the driver.
C12_Witness ==
  /\ host.call = "vkGetInstanceProcAddr"
  /\ host.name = "vkAcquireNextImage2KHR"
  /\ host.result.owner = "driver"
  /\ Orig_vkAcquireNextImageKHR.owner = "driver"

\* C13 as stated: the binding holds what the driver wrote last, the cached
\* swapchain handle the handle of the latest create call and the image index
\* the index of the latest acquire call.
C13_BindingHoldsLatestWritten ==
  /\ cached_swapchain = host.swapchain_written
  /\ image_index = host.index_written

\* C13 as amended: after an intercepted call returns, the binding holds the
\* contents of the host's output variable as the forwarded driver call left
\* it, which is what the driver wrote when the call succeeded.
C13_BindingHoldsOutputParameter ==
  /\ host.call = "vkCreateSwapchainKHR" =>
       /\ cached_swapchain = host.out
       /\ host.driver_result = VK_SUCCESS =>
            cached_swapchain = host.swapchain_written
  /\ host.call = "vkAcquireNextImageKHR" =>
       /\ image_index = host.out
       /\ host.driver_result = VK_SUCCESS =>
            image_index = host.index_written

\* A swapchain was created and then its second image acquired.
C13_Witness ==
  /\ host.call = "vkAcquireNextImageKHR"
  /\ host.driver_result = VK_SUCCESS
  /\ image_index = 1
  /\ cached_swapchain \in live

\* C14: what the host reads as the result of an intercepted call is the
\* result code of the driver call.
C14_HookReturnsDriverResult ==
  host.call \in HookedNames => host.hook_result = host.driver_result

(***************************************************************************)
(* Properties of the render textures (SpecTextures).                       *)
(***************************************************************************)
\* The live images, and the live memory an image was bound to.
RenderTextureObjects ==
  {h \in live :
     \/ objs[h].kind = "Image"
     \/ /\ objs[h].kind = "Memory"
        /\ \E i \in DOMAIN objs : objs[i].kind = "Image" /\ objs[i].dep = h}

\* C31: once the renderer is destroyed no image and no memory of a render
\* texture is live: DestroyRenderTexture or at the latest the teardown of
\* the renderer has released what CreateRenderTexture allocated.
C31_NoRenderTextureOutlivesRenderer ==
  vr_life = "dead" => RenderTextureObjects = {}

(***************************************************************************)
(* Properties of the memory type lookup (SpecMemoryTypes).                 *)
(***************************************************************************)
\* Bit number k of the unsigned integer x is set.
HasBit(x, k) == (x \div (2 ^ k)) % 2 = 1

\* The indices below the device's memory type count whose bit in the type
\* filter is set and whose flags include every requested property.
SuitableTypes(type_filter, properties) ==
  {k \in 0..(Len(physical_device.memoryTypes) - 1) :
     /\ HasBit(type_filter, k)
     /\ \A b \in 0..2 : HasBit(properties, b)
                           => HasBit(physical_device.memoryTypes[k + 1], b)}

Lookups == {i \in 1..Len(log) : log[i].op = "FindMemoryType"}
LoggedNoType(i) ==
  i < Len(log) /\ log[i + 1].op = "LOGE" /\ log[i + 1].kind = "FindMemoryType"

\* C32: FindMemoryType returns the smallest index below the device's memory
\* type count whose bit in the type filter is set and whose flags include
\* all requested properties; without such an index it writes to the error
\* log and returns 0; either way the memory allocation is the next driver
\* call, and that of a render texture asks for the index returned.
C32_SmallestSuitableTypeOrZero ==
  \A i \in Lookups :
    LET suitable == SuitableTypes(log[i].arg[1], log[i].arg[2])
        index == log[i].arg[3]
        next == IF suitable = {} THEN i + 2 ELSE i + 1
    IN /\ suitable # {} => /\ index \in suitable
                           /\ \A k \in suitable : index <= k
                           /\ ~LoggedNoType(i)
       /\ suitable = {} => index = 0 /\ LoggedNoType(i)
       /\ next <= Len(log)
       /\ log[next].kind = "Memory"
       /\ log[next].op \in {"create", "create_failed"}
       /\ LastCall = "CreateRenderTexture" => log[next].arg = <<index>>

\* A render texture on a device without a suitable memory type: the lookup
\* returned 0 and the memory was allocated all the same.
C32_Witness ==
  /\ LastCall = "CreateRenderTexture"
  /\ \E i \in Lookups :
       /\ SuitableTypes(log[i].arg[1], log[i].arg[2]) = {}
       /\ Len(physical_device.memoryTypes) > 0
       /\ log[i].arg[3] = 0
       /\ log[i + 2].op = "create"
       /\ log[i + 2].h \in live

====
